---- MODULE Spec2Model ----
(***************************************************************************)
(* B2B-Marketplace-Scraper: the Flask orchestration (app.py), the          *)
(* multi-source aggregator (scraper_multi_source.py) and the ETL stage     *)
(* (data_processor.py), with the sample generator's price formatting       *)
(* (generate_sample_data.py).                                              *)
(*                                                                         *)
(* Strings the code inspects character by character are sequences of       *)
(* one-character strings; the rupee sign is the one-element token "RUPEE". *)
(* Python's None / NaN is NULL, NoStr in a column of such strings and NaN   *)
(* in a column of floats.                                                  *)
(***************************************************************************)
EXTENDS Integers, Sequences, FiniteSets, TLC

VARIABLES
    \* ---- app.py -------------------------------------------------------
    scraping_status,   \* the global status dict (app.py:25-31)
    pc,                \* per request/thread: the line it is about to execute
    args,              \* per thread: run_scraping's arguments
    loop_i,            \* per thread: the index i of `for i, category in enumerate`
    products,          \* per thread: scraper.products of the thread's own scraper
    saved,             \* per thread: the records save_data wrote (none: <<>>)
    failed,            \* per thread: an exception reached `except Exception` (app.py:164)
    response,          \* per request: the HTTP answer of start_scraping
    scraper,           \* per thread: the MultiSourceScraper its local names (0: none yet)
    writers,           \* per MultiSourceScraper: the threads that appended to its products
    \* ---- scraper_multi_source.py: one call of scrape_category ----------
    sc_products,       \* self.products of the scraper
    sc_call,           \* the arguments: category, sources, max_per_source
    sc_idx,            \* sources of the list already processed
    sc_total,          \* total (scraper_multi_source.py:155)
    sc_log,            \* per processed source: what was fetched, count, records appended
    sc_pc,             \* "idle", "loop", "returned" or "raised"
    \* ---- data_processor.py: one price through clean_price, categorize_price
    price_text,        \* the raw price column value
    gen_numeric,       \* the price the sample generator drew for it (0: not generated)
    price_cleaned,     \* clean_price(price_text)
    price_category,    \* categorize_price(price_cleaned)
    pr_pc,             \* "idle", "start", "raw", "cleaned" or "categorized"
    \* ---- data_processor.py: DataProcessor over one table ----------------
    df0,               \* the table as load_data read it
    df,                \* self.df
    etl_pc,            \* "idle", "loaded", "cleaned", "featured", "recleaned",
                       \* "refeatured" or "raised"
    \* ---- scraper_multi_source.py: one call of extract_products -----------
    ex_call,           \* the arguments: soup's links, category, source_name, max_results
    ex_products,       \* self.products
    ex_prior,          \* self.products as it was when the call began
    ex_k,              \* links of all_links the loop has consumed
    ex_count,          \* count
    ex_seen,           \* seen
    ex_emitted,        \* per consumed link: a product was appended for it
    ex_pc,             \* "idle", "loop" or "returned"
    \* ---- scraper to DataProcessor: one category, saved and processed ----
    pl_category,       \* the category scraped and backfilled
    pl_products,       \* self.products of the scraper
    pl_log,            \* what the steps so far were given and appended
    pl_file,           \* the rows of the CSV file save_data wrote (none: <<>>)
    pl_pc,             \* "idle", "scrape", "backfill", "save", "nothing", "load" or "loaded"
    \* ---- data_processor.py: one call of extract_keywords ------------------
    kw_name,           \* the argument product_name
    kw_keywords,       \* the list returned
    kw_pc              \* "idle", "called" or "returned"

NULL == "None"
NoStr == <<"None">>          \* None / NaN where the other values are character strings
NaN == [m |-> -1, e |-> 0]   \* None / np.nan where the other values are floats

appVars == <<scraping_status, pc, args, loop_i, products, saved, failed, response,
             scraper, writers>>
aggVars == <<sc_products, sc_call, sc_idx, sc_total, sc_log, sc_pc>>
priceVars == <<price_text, gen_numeric, price_cleaned, price_category, pr_pc>>
vars == <<scraping_status, pc, args, loop_i, products, saved, failed, response,
          scraper, writers,
          sc_products, sc_call, sc_idx, sc_total, sc_log, sc_pc,
          price_text, gen_numeric, price_cleaned, price_category, pr_pc,
          df0, df, etl_pc,
          ex_call, ex_products, ex_prior, ex_k, ex_count, ex_seen, ex_emitted, ex_pc,
          pl_category, pl_products, pl_log, pl_file, pl_pc,
          kw_name, kw_keywords, kw_pc>>
etlVars == <<df0, df, etl_pc>>
exVars == <<ex_call, ex_products, ex_prior, ex_k, ex_count, ex_seen, ex_emitted, ex_pc>>
plVars == <<pl_category, pl_products, pl_log, pl_file, pl_pc>>
kwVars == <<kw_name, kw_keywords, kw_pc>>

\* ---------------------------------------------------------------- bounds
MaxRequests == 2       \* POST /api/scrape requests in one behaviour
MaxCats == 2           \* longest category list of a request
MaxYield == 1          \* most records one real source yields per category

Requests == 1..MaxRequests

\* ------------------------------------------------------- program constants
MAX_PER_SOURCE == 15   \* app.py:146
SAMPLE_COUNT == 35     \* app.py:150
DEFAULT_PPC == 50      \* app.py:104

\* app.py:77-83 (ids as the frontend posts them)
CategoryIds == <<"safety_equipment", "plastic_raw_materials", "textile_fabrics">>

\* category.replace('_', ' ') (app.py:142), on the ids above
category_name(c) ==
    CASE c = "safety_equipment" -> "safety equipment"
      [] c = "plastic_raw_materials" -> "plastic raw materials"
      [] c = "textile_fabrics" -> "textile fabrics"
      [] OTHER -> c

\* category.replace('_', ' ').title() (app.py:137), on the ids above
category_title(c) ==
    CASE c = "safety_equipment" -> "Safety Equipment"
      [] c = "plastic_raw_materials" -> "Plastic Raw Materials"
      [] c = "textile_fabrics" -> "Textile Fabrics"
      [] OTHER -> c

\* len(product_templates.get(category, [])) (scraper_multi_source.py:166-201)
TemplateCount(cat) ==
    CASE cat = "industrial machinery" -> 12
      [] cat = "electronic components" -> 10
      [] cat = "textile fabrics" -> 9
      [] cat = "plastic raw materials" -> 8
      [] cat = "safety equipment" -> 9
      [] OTHER -> 0

Min(a, b) == IF a <= b THEN a ELSE b

\* a sequence of n copies of x
Repeat(x, n) == [k \in 1..n |-> x]

\* ======================================================================
\* Strings (sequences of characters) and numbers
\* ======================================================================

UpperAlpha == <<"A","B","C","D","E","F","G","H","I","J","K","L","M",
                "N","O","P","Q","R","S","T","U","V","W","X","Y","Z">>
LowerAlpha == <<"a","b","c","d","e","f","g","h","i","j","k","l","m",
                "n","o","p","q","r","s","t","u","v","w","x","y","z">>
Digits == <<"0","1","2","3","4","5","6","7","8","9">>

\* the position of c in seq, 0 when absent
IndexIn(c, seq) ==
    IF \E i \in 1..Len(seq) : seq[i] = c
    THEN CHOOSE i \in 1..Len(seq) : seq[i] = c
    ELSE 0

IsDigit(c) == IndexIn(c, Digits) > 0
IsAlpha(c) == IndexIn(c, UpperAlpha) > 0 \/ IndexIn(c, LowerAlpha) > 0
IsSpace(c) == c \in {" ", "\t", "\n"}

\* the lower-case letter of every upper-case letter, and the reverse
LowerMap == [c \in {UpperAlpha[i] : i \in 1..Len(UpperAlpha)} |-> LowerAlpha[IndexIn(c, UpperAlpha)]]
UpperMap == [c \in {LowerAlpha[i] : i \in 1..Len(LowerAlpha)} |-> UpperAlpha[IndexIn(c, LowerAlpha)]]

lower_char(c) == IF c \in DOMAIN LowerMap THEN LowerMap[c] ELSE c
upper_char(c) == IF c \in DOMAIN UpperMap THEN UpperMap[c] ELSE c

\* str.lower()
lower(s) == [i \in 1..Len(s) |-> lower_char(s[i])]

\* `w in s` for strings
Contains(s, w) ==
    \E i \in 1..(Len(s) - Len(w) + 1) : SubSeq(s, i, i + Len(w) - 1) = w

\* str.strip()
RECURSIVE lstrip(_)
lstrip(s) == IF s # <<>> /\ IsSpace(Head(s)) THEN lstrip(Tail(s)) ELSE s
RECURSIVE rstrip(_)
rstrip(s) ==
    IF s # <<>> /\ IsSpace(s[Len(s)]) THEN rstrip(SubSeq(s, 1, Len(s) - 1)) ELSE s
strip(s) == rstrip(lstrip(s))

\* the characters of s that satisfy no removal: s.replace(c, '')
RECURSIVE remove_char(_, _)
remove_char(s, c) ==
    IF s = <<>> THEN <<>>
    ELSE (IF Head(s) = c THEN <<>> ELSE <<Head(s)>>) \o remove_char(Tail(s), c)

\* the value of a non-empty string of decimal digits
RECURSIVE DigitsValue(_)
DigitsValue(ds) ==
    IF ds = <<>> THEN 0
    ELSE 10 * DigitsValue(SubSeq(ds, 1, Len(ds) - 1)) + (IndexIn(ds[Len(ds)], Digits) - 1)

\* A float is kept exactly, as mantissa * 10^exponent with the mantissa not
\* divisible by 10 (0 is [m |-> 0, e |-> 0]); the values the model computes
\* are decimal fractions times powers of ten, which this represents without
\* rounding.
RECURSIVE Dec(_, _)
Dec(m, e) ==
    IF m = 0 THEN [m |-> 0, e |-> 0]
    ELSE IF m % 10 = 0 THEN Dec(m \div 10, e + 1)
    ELSE [m |-> m, e |-> e]

RECURSIVE Pow10(_)
Pow10(k) == IF k <= 0 THEN 1 ELSE 10 * Pow10(k - 1)

\* float(n) for an integer n
Float(n) == Dec(n, 0)

\* x * 10^k
Scale10(x, k) == Dec(x.m, x.e + k)

\* x < t for a float x >= 0 and an integer t with 0 < t <= 10^9
LessThanInt(x, t) ==
    IF x.e >= 0
    THEN IF x.e > 9 THEN x.m = 0 ELSE x.m <= (t - 1) \div Pow10(x.e)
    ELSE x.m \div Pow10(-x.e) < t

\* ======================================================================
\* scraper_multi_source.py: extract_products, scrape_source, scrape_category
\* ======================================================================

\* self.sources[key]['name'] (scraper_multi_source.py:24-49); NULL: no such key
SourceName(key) ==
    CASE key = "tradeindia" -> "TradeIndia"
      [] key = "alibaba" -> "Alibaba"
      [] key = "dhgate" -> "DHgate"
      [] key = "exportersindia" -> "ExportersIndia"
      [] OTHER -> NULL

\* characters the price pattern and the price texts use
RUPEE == "RUPEE"    \* the rupee sign, one character

\* re.findall(r'[\d,]+', s)[0]: the first maximal run of digits and commas,
\* NoStr when there is none
IsDigitOrComma(c) == IsDigit(c) \/ c = ","
RECURSIVE TakeWhileDigitOrComma(_)
TakeWhileDigitOrComma(s) ==
    IF s # <<>> /\ IsDigitOrComma(Head(s))
    THEN <<Head(s)>> \o TakeWhileDigitOrComma(Tail(s))
    ELSE <<>>
RECURSIVE FirstCommaRun(_)
FirstCommaRun(s) ==
    IF s = <<>> THEN NoStr
    ELSE IF IsDigitOrComma(Head(s)) THEN TakeWhileDigitOrComma(s)
    ELSE FirstCommaRun(Tail(s))

\* float(numbers[0]) without the replace: a run with a comma does not parse
price_numeric_of_commas_kept(text) ==
    LET run == FirstCommaRun(text) IN
        IF run = NoStr THEN NaN
        ELSE IF remove_char(run, ",") # run THEN NaN
        ELSE Float(DigitsValue(run))

\* scraper_multi_source.py:121-126: float(numbers[0].replace(',', '')), None
\* when there is no run or float() raises (a run of commas only)
price_numeric_of(text) ==
    LET run == FirstCommaRun(text) IN
        IF run = NoStr THEN NaN
        ELSE IF remove_char(run, ",") = <<>> THEN NaN
        ELSE Float(DigitsValue(remove_char(run, ",")))

\* scraper_multi_source.py:107
NoiseWords == { <<"h","o","m","e">>, <<"a","b","o","u","t">>,
                <<"c","o","n","t","a","c","t">>, <<"l","o","g","i","n">>,
                <<"c","a","t","e","g","o","r","y">>, <<"m","o","r","e">> }

\* the noise test without .lower()
IsNoise_case_sensitive(name) == \E w \in NoiseWords : Contains(name, w)

\* any(skip in name.lower() for skip in [...])
IsNoise(name) == \E w \in NoiseWords : Contains(lower(name), w)

\* scraper_multi_source.py:102: link.get('title') or link.get_text(strip=True)
LinkName(link) ==
    IF link.title # NoStr /\ link.title # <<>> THEN link.title ELSE strip(link.text)

\* scraper_multi_source.py:112-139: the product dict of a surviving link
\* (scraped_at, a timestamp, is left out)
ProductOf(link, category, source_name) ==
    [name |-> LinkName(link),
     price |-> IF link.price_elem # NoStr THEN strip(link.price_elem)
               ELSE <<"P","r","i","c","e"," ","o","n"," ","R","e","q","u","e","s","t">>,
     price_numeric |-> IF link.price_elem # NoStr
                       THEN price_numeric_of(strip(link.price_elem)) ELSE NaN,
     company |-> "To be updated",
     location |-> "India",
     category |-> category,
     rating |-> NULL,
     url |-> link.href,
     source |-> source_name]

\* scraper_multi_source.py:97-145, from link k on: count so far, names seen,
\* records appended so far
RECURSIVE ExtractFrom(_, _, _, _, _, _, _)
ExtractFrom(doc, k, category, source_name, max_results, count, st) ==
    IF k > Len(doc) \/ count >= max_results
    THEN [count |-> count, appended |-> st.appended]
    ELSE LET name == LinkName(doc[k]) IN
         IF name # <<>> /\ 10 < Len(name) /\ Len(name) < 200
               /\ name \notin st.seen /\ ~IsNoise(name)
         THEN ExtractFrom(doc, k + 1, category, source_name, max_results, count + 1,
                          [seen |-> st.seen \cup {name},
                           appended |-> Append(st.appended,
                                               ProductOf(doc[k], category, source_name))])
         ELSE ExtractFrom(doc, k + 1, category, source_name, max_results, count, st)

\* extract_products (scraper_multi_source.py:89-147): the count returned and
\* the records appended to self.products
extract_products(doc, category, source_name, max_results) ==
    ExtractFrom(doc, 1, category, source_name, max_results, 0,
                [seen |-> {}, appended |-> <<>>])

\* What a fetch can come to: requests raises ("exception"), or a response
\* with a status code and, parsed, the <a href> elements of its document in
\* document order (none for a document that does not parse into any).
Fetch(kind, status, doc) == [kind |-> kind, status |-> status, doc |-> doc]

\* scrape_source without its try/except: a fetch exception leaves the method
scrape_source_unguarded(source_key, category, max_results, fetch) ==
    IF SourceName(source_key) = NULL
    THEN [count |-> 0, appended |-> <<>>, raised |-> FALSE]
    ELSE IF fetch.kind = "exception"
    THEN [count |-> 0, appended |-> <<>>, raised |-> TRUE]
    ELSE IF fetch.status = 200
    THEN LET got == extract_products(fetch.doc, category, SourceName(source_key), max_results)
         IN [count |-> got.count, appended |-> got.appended, raised |-> FALSE]
    ELSE [count |-> 0, appended |-> <<>>, raised |-> FALSE]

\* scrape_source reporting the links of the document, not the records appended
scrape_source_counting_links(source_key, category, max_results, fetch) ==
    IF SourceName(source_key) = NULL \/ fetch.kind = "exception" \/ fetch.status # 200
    THEN [count |-> 0, appended |-> <<>>, raised |-> FALSE]
    ELSE [count |-> Len(fetch.doc),
          appended |-> extract_products(fetch.doc, category, SourceName(source_key),
                                        max_results).appended,
          raised |-> FALSE]

\* scrape_source (scraper_multi_source.py:60-87): count, records appended,
\* and whether an exception leaves the method
scrape_source(source_key, category, max_results, fetch) ==
    IF SourceName(source_key) = NULL
    THEN [count |-> 0, appended |-> <<>>, raised |-> FALSE]
    ELSE IF fetch.kind = "exception"
    THEN [count |-> 0, appended |-> <<>>, raised |-> FALSE]
    ELSE IF fetch.status = 200
    THEN LET got == extract_products(fetch.doc, category, SourceName(source_key), max_results)
         IN [count |-> got.count, appended |-> got.appended, raised |-> FALSE]
    ELSE [count |-> 0, appended |-> <<>>, raised |-> FALSE]

\* ---- the documents the model fetches
Str_SafetyHelmet == <<"S","a","f","e","t","y"," ","H","e","l","m","e","t">>
Str_IndustrialGloves ==
    <<"I","n","d","u","s","t","r","i","a","l"," ","G","l","o","v","e","s">>
Str_Home == <<"H","o","m","e">>
Str_ContactUs == <<"C","o","n","t","a","c","t"," ","U","s"," ","P","a","g","e",
                   " ","L","i","n","k">>
Str_Rs5000 == <<RUPEE," ","5",",","0","0","0">>

Link(title, text, href, price_elem) ==
    [title |-> title, text |-> text, href |-> href, price_elem |-> price_elem]

Link_Helmet == Link(NoStr, <<" ">> \o Str_SafetyHelmet, "/p/helmet", Str_Rs5000)
Link_Gloves == Link(Str_IndustrialGloves, <<>>, "/p/gloves", NoStr)
Link_Home == Link(NoStr, Str_Home, "/", NoStr)
Link_Contact == Link(NoStr, Str_ContactUs, "/contact", NoStr)

Docs == { <<>>,
          <<Link_Home, Link_Contact>>,
          <<Link_Home, Link_Helmet>>,
          <<Link_Helmet, Link_Helmet, Link_Gloves>> }

Fetches ==
    {Fetch("exception", 0, <<>>), Fetch("response", 404, <<>>)}
        \cup { Fetch("response", 200, d) : d \in Docs }

SourceKeys == {"tradeindia", "alibaba", "nosuchsource"}

MaxSources == 2      \* longest source list of a scrape_category call
MaxCap == 2          \* largest max_per_source of a call

RECURSIVE SeqsUpTo(_, _)
SeqsUpTo(S, n) ==
    IF n = 0 THEN { <<>> }
    ELSE SeqsUpTo(S, n - 1)
         \cup { Append(q, x) : q \in { t \in SeqsUpTo(S, n - 1) : Len(t) = n - 1 }, x \in S }

AggIdle ==
    /\ sc_products = <<>>
    /\ sc_call = [category |-> "", sources |-> <<>>, max_per_source |-> 0]
    /\ sc_idx = 0
    /\ sc_total = 0
    /\ sc_log = <<>>
    /\ sc_pc = "idle"

\* ======================================================================
\* data_processor.py: clean_price, categorize_price;
\* generate_sample_data.py: generate_price
\* ======================================================================

Str_PriceNotAvailable == <<"P","r","i","c","e"," ","n","o","t"," ",
                           "a","v","a","i","l","a","b","l","e">>
Str_PriceOnRequest == <<"P","r","i","c","e"," ","o","n"," ","R","e","q","u","e","s","t">>
Str_Lakh == <<"L","a","k","h">>
Str_Crore == <<"C","r","o","r","e">>
Str_Rs2_50Lakh == <<RUPEE, " ", "2", ".", "5", "0", " ">> \o Str_Lakh

RECURSIVE TakeWhileDigit(_)
TakeWhileDigit(s) ==
    IF s # <<>> /\ IsDigit(Head(s)) THEN <<Head(s)>> \o TakeWhileDigit(Tail(s)) ELSE <<>>

\* re.findall(r'\d+\.?\d*', s)[0] as float: the first run of digits, an
\* optional point and the digits after it; NaN when s has no digit
RECURSIVE first_number(_)
first_number(s) ==
    IF s = <<>> THEN NaN
    ELSE IF ~IsDigit(Head(s)) THEN first_number(Tail(s))
    ELSE LET int_part == TakeWhileDigit(s)
             rest == SubSeq(s, Len(int_part) + 1, Len(s))
             frac_part == IF rest # <<>> /\ Head(rest) = "."
                          THEN TakeWhileDigit(Tail(rest)) ELSE <<>>
         IN Dec(DigitsValue(int_part \o frac_part), -Len(frac_part))

\* clean_price testing 'crore' before 'lakh'
clean_price_crore_first(text) ==
    IF text = NoStr \/ text = Str_PriceNotAvailable THEN NaN
    ELSE LET price == first_number(text) IN
         IF price = NaN THEN NaN
         ELSE IF Contains(lower(text), lower(Str_Crore)) THEN Scale10(price, 7)
         ELSE IF Contains(lower(text), lower(Str_Lakh)) THEN Scale10(price, 5)
         ELSE IF Contains(lower(text), <<"k">>) THEN Scale10(price, 3)
         ELSE price

\* clean_price (data_processor.py:86-108)
clean_price(text) ==
    IF text = NoStr \/ text = Str_PriceNotAvailable THEN NaN
    ELSE LET price == first_number(text) IN
         IF price = NaN THEN NaN
         ELSE IF Contains(lower(text), lower(Str_Lakh)) THEN Scale10(price, 5)
         ELSE IF Contains(lower(text), lower(Str_Crore)) THEN Scale10(price, 7)
         ELSE IF Contains(lower(text), <<"k">>) THEN Scale10(price, 3)
         ELSE price

\* the labels of data_processor.py:157-171 (the rupee sign written Rs)
Cat_Budget == "Budget (< Rs1K)"
Cat_Low == "Low (Rs1K-10K)"
Cat_Medium == "Medium (Rs10K-50K)"
Cat_High == "High (Rs50K-1L)"
Cat_Premium == "Premium (> Rs1L)"
Cat_Unknown == "Unknown"

\* categorize_price with the boundaries falling into the lower bin
categorize_price_closed(price) ==
    IF price = NaN THEN Cat_Unknown
    ELSE IF LessThanInt(price, 1000) \/ price = Float(1000) THEN Cat_Budget
    ELSE IF LessThanInt(price, 10000) \/ price = Float(10000) THEN Cat_Low
    ELSE IF LessThanInt(price, 50000) \/ price = Float(50000) THEN Cat_Medium
    ELSE IF LessThanInt(price, 100000) \/ price = Float(100000) THEN Cat_High
    ELSE Cat_Premium

\* categorize_price (data_processor.py:157-171)
categorize_price(price) ==
    IF price = NaN THEN Cat_Unknown
    ELSE IF LessThanInt(price, 1000) THEN Cat_Budget
    ELSE IF LessThanInt(price, 10000) THEN Cat_Low
    ELSE IF LessThanInt(price, 50000) THEN Cat_Medium
    ELSE IF LessThanInt(price, 100000) THEN Cat_High
    ELSE Cat_Premium

\* str(n) for an integer n >= 0
RECURSIVE FormatInt(_)
FormatInt(n) ==
    IF n < 10 THEN <<Digits[n + 1]>>
    ELSE FormatInt(n \div 10) \o <<Digits[(n % 10) + 1]>>

\* n written with exactly k digits (n < 10^k)
RECURSIVE ZeroPad(_, _)
ZeroPad(n, k) == IF k = 0 THEN <<>> ELSE ZeroPad(n \div 10, k - 1) \o <<Digits[(n % 10) + 1]>>

\* f"{n:,}"
RECURSIVE FormatComma(_)
FormatComma(n) ==
    IF n < 1000 THEN FormatInt(n)
    ELSE FormatComma(n \div 1000) \o <<",">> \o ZeroPad(n % 1000, 3)

\* f"{price / 100000:.2f}" for a price that is no rounding tie
FormatLakhs(price) ==
    LET h == (price + 500) \div 1000
    IN FormatInt(h \div 100) \o <<".">> \o ZeroPad(h % 100, 2)

\* generate_price (generate_sample_data.py:85-96): the price text
generate_price_text(price) ==
    IF price >= 100000 THEN <<RUPEE, " ">> \o FormatLakhs(price) \o <<" ">> \o Str_Lakh
    ELSE IF price >= 1000 THEN <<RUPEE, " ">> \o FormatComma(price)
    ELSE <<RUPEE, " ">> \o FormatInt(price)

GEN_MIN_PRICE == 50          \* generate_sample_data.py:74
GEN_MAX_PRICE == 5000000     \* generate_sample_data.py:72

MaxMantissa == 25     \* the generated prices are m * 10^e and m * 10^e + m,
MaxExp == 5           \* m in 1..MaxMantissa, e in 0..MaxExp

GenPrices ==
    { p \in { m * Pow10(e) + d * m : m \in 1..MaxMantissa, e \in 0..MaxExp, d \in 0..1 } :
        /\ GEN_MIN_PRICE <= p /\ p <= GEN_MAX_PRICE
        /\ p % 1000 # 500 }

\* price texts of other producers: plain amounts around the category
\* boundaries, fractions, magnitude words, texts without a number
BoundaryAmounts == {0, 999, 1000, 1001, 9999, 10000, 10001, 49999, 50000, 50001,
                    99999, 100000, 100001}
\* price texts with more than one magnitude word, or with a k and no number
Str_5CroreOr50Lakh == <<"5", " ">> \o Str_Crore \o <<" ", "/", " ", "5", "0", " ">> \o Str_Lakh
Str_1kCrore == <<"1", "k", " ">> \o Str_Crore
Str_2LAKH == <<"2", " ", "L", "A", "K", "H">>
Str_PackOf10 == <<"P", "a", "c", "k", " ", "o", "f", " ", "1", "0">>
Str_BulkPack == <<"B", "u", "l", "k", " ", "p", "a", "c", "k">>

OtherPriceTexts ==
    { <<RUPEE, " ">> \o FormatInt(n) : n \in BoundaryAmounts }
    \cup { <<RUPEE, " ">> \o FormatInt(n) \o <<".", "5", "0">> : n \in BoundaryAmounts }
    \cup { Str_Rs2_50Lakh, Str_Rs5000,
           <<"R", "s", " ", "1", " ">> \o Str_Crore,
           <<"4", "9", ".", "9", "k">>,
           <<"5", "0", "K">>,
           <<"1", "2", ".", " ", "p", "c">>,
           Str_5CroreOr50Lakh, Str_1kCrore, Str_2LAKH, Str_PackOf10, Str_BulkPack,
           Str_PriceNotAvailable, Str_PriceOnRequest, NoStr, <<>> }

PriceIdle ==
    /\ price_text = NoStr
    /\ gen_numeric = 0
    /\ price_cleaned = NaN
    /\ price_category = Cat_Unknown
    /\ pr_pc = "idle"

\* ======================================================================
\* data_processor.py: the normalizers of clean_data and the quality score
\* ======================================================================

Str_Unknown ==
    <<"U","n","k","n","o","w","n">>
Str_LocationNotAvailable ==
    <<"L","o","c","a","t","i","o","n"," ","n","o","t"," ","a","v","a",
      "i","l","a","b","l","e">>
Str_ToBeUpdated ==
    <<"T","o"," ","b","e"," ","u","p","d","a","t","e","d">>
Str_India ==
    <<"I","n","d","i","a">>
Str_PrimeIndustries ==
    <<"P","r","i","m","e"," ","I","n","d","u","s","t","r","i","e",
      "s">>
Str_AcmePvtLtd ==
    <<"A","c","m","e"," ","T","o","o","l","s"," ","P","v","t"," ","L",
      "t","d",".">>
Str_MumbaiMaharashtra ==
    <<"M","u","m","b","a","i",","," ","M","a","h","a","r","a","s","h",
      "t","r","a">>
Str_AcmeTools ==
    <<"A","c","m","e"," ","T","o","o","l","s">>
Str_unknown_padded ==
    <<" "," ","u","n","k","n","o","w","n"," ">>
Str_KochiKerala ==
    <<"k","o","c","h","i",","," "," ","k","e","r","a","l","a">>

\* data_processor.py:129-133
States ==
    <<
      <<"M","a","h","a","r","a","s","h","t","r","a">>,
      <<"G","u","j","a","r","a","t">>,
      <<"D","e","l","h","i">>,
      <<"T","a","m","i","l"," ","N","a","d","u">>,
      <<"K","a","r","n","a","t","a","k","a">>,
      <<"U","t","t","a","r"," ","P","r","a","d","e","s","h">>,
      <<"W","e","s","t"," ","B","e","n","g","a","l">>,
      <<"R","a","j","a","s","t","h","a","n">>,
      <<"H","a","r","y","a","n","a">>,
      <<"T","e","l","a","n","g","a","n","a">>,
      <<"A","n","d","h","r","a"," ","P","r","a","d","e","s","h">>,
      <<"P","u","n","j","a","b">>,
      <<"M","a","d","h","y","a"," ","P","r","a","d","e","s","h">>
    >>

\* data_processor.py:151
Suffixes ==
    <<
      <<"P","v","t"," ","L","t","d">>,
      <<"P","r","i","v","a","t","e"," ","L","i","m","i","t","e","d">>,
      <<"L","t","d">>,
      <<"I","n","c">>,
      <<"C","o","r","p","o","r","a","t","i","o","n">>,
      <<"C","o","r","p">>
    >>

\* data_processor.py:182
StopWords ==
    {
      <<"a","n","d">>,
      <<"o","r">>,
      <<"t","h","e">>,
      <<"a">>,
      <<"a","n">>,
      <<"i","n">>,
      <<"o","n">>,
      <<"a","t">>,
      <<"f","o","r">>,
      <<"w","i","t","h">>,
      <<"f","r","o","m">>,
      <<"t","o">>
    }

\* re.sub(r'\s+', ' ', s): every run of whitespace becomes one space
RECURSIVE collapse_spaces(_)
collapse_spaces(s) ==
    IF s = <<>> THEN <<>>
    ELSE IF IsSpace(Head(s))
         THEN <<" ">> \o collapse_spaces(lstrip(s))
         ELSE <<Head(s)>> \o collapse_spaces(Tail(s))

\* str.title(): in every run of letters the first is upper case, the rest lower
title(s) ==
    [i \in 1..Len(s) |->
        IF ~IsAlpha(s[i]) THEN s[i]
        ELSE IF i = 1 \/ ~IsAlpha(s[i - 1]) THEN upper_char(s[i])
        ELSE lower_char(s[i])]

\* clean_location (data_processor.py:110-121)
clean_location(location) ==
    IF location = NoStr \/ location = Str_LocationNotAvailable THEN Str_Unknown
    ELSE title(strip(collapse_spaces(location)))

\* location.split(',')[-1]
RECURSIVE LastSegment(_)
LastSegment(s) ==
    IF \E i \in 1..Len(s) : s[i] = ","
    THEN LastSegment(SubSeq(s, (CHOOSE i \in 1..Len(s) : s[i] = ",") + 1, Len(s)))
    ELSE s

\* the last state of the list, from position k, that occurs in location
FirstState_reverse(location, k) ==
    LET hits == { j \in k..Len(States) : Contains(lower(location), lower(States[j])) }
    IN IF hits = {} THEN NoStr
       ELSE States[CHOOSE j \in hits : \A i \in hits : i <= j]

\* the first state of the list, from position k, that occurs in location
RECURSIVE FirstState(_, _)
FirstState(location, k) ==
    IF k > Len(States) THEN NoStr
    ELSE IF Contains(lower(location), lower(States[k])) THEN States[k]
    ELSE FirstState(location, k + 1)

\* extract_state (data_processor.py:123-141)
extract_state(location) ==
    IF location = Str_Unknown THEN Str_Unknown
    ELSE IF FirstState(location, 1) # NoStr THEN FirstState(location, 1)
    ELSE strip(LastSegment(location))

\* \w of the regular expressions
IsWordChar(c) == IsAlpha(c) \/ IsDigit(c) \/ c = "_"

\* re.sub(rf'\b{suffix}\b\.?', '', s, flags=re.IGNORECASE), scanning from i
RECURSIVE RemoveSuffixFrom(_, _, _)
RemoveSuffixFrom(s, suffix, i) ==
    IF i > Len(s) THEN <<>>
    ELSE LET n == Len(suffix)
             hit == /\ i + n - 1 <= Len(s)
                    /\ lower(SubSeq(s, i, i + n - 1)) = lower(suffix)
                    /\ (i = 1 \/ ~IsWordChar(s[i - 1]))
                    /\ (i + n > Len(s) \/ ~IsWordChar(s[i + n]))
         IN IF hit
            THEN RemoveSuffixFrom(s, suffix,
                     IF i + n <= Len(s) /\ s[i + n] = "." THEN i + n + 1 ELSE i + n)
            ELSE <<s[i]>> \o RemoveSuffixFrom(s, suffix, i + 1)

\* data_processor.py:152-153: the suffixes removed one after the other
RECURSIVE RemoveSuffixes(_, _)
RemoveSuffixes(s, k) ==
    IF k > Len(Suffixes) THEN s
    ELSE RemoveSuffixes(RemoveSuffixFrom(s, Suffixes[k], 1), k + 1)

\* clean_company_name (data_processor.py:143-155)
clean_company_name(company) ==
    IF company = NoStr \/ company = Str_Unknown THEN Str_Unknown
    ELSE title(strip(RemoveSuffixes(strip(company), 1)))

\* str.split(): the maximal runs of non-whitespace
RECURSIVE TakeWord(_)
TakeWord(s) ==
    IF s # <<>> /\ ~IsSpace(Head(s)) THEN <<Head(s)>> \o TakeWord(Tail(s)) ELSE <<>>
RECURSIVE split(_)
split(s) ==
    IF lstrip(s) = <<>> THEN <<>>
    ELSE LET t == lstrip(s)
             w == TakeWord(t)
         IN <<w>> \o split(SubSeq(t, Len(w) + 1, Len(t)))

RECURSIVE KeepKeywords(_)
KeepKeywords(words) ==
    IF words = <<>> THEN <<>>
    ELSE (IF Head(words) \notin StopWords /\ Len(Head(words)) > 2
          THEN <<Head(words)>> ELSE <<>>) \o KeepKeywords(Tail(words))

\* extract_keywords returning every keyword
extract_keywords_untruncated(product_name) ==
    IF product_name = NoStr THEN <<>>
    ELSE KeepKeywords(split(lower(product_name)))

\* extract_keywords (data_processor.py:173-185)
extract_keywords(product_name) ==
    IF product_name = NoStr THEN <<>>
    ELSE LET keywords == KeepKeywords(split(lower(product_name)))
         IN SubSeq(keywords, 1, Min(5, Len(keywords)))

B(cond) == IF cond THEN 1 ELSE 0

\* calculate_quality_score with the cleaned company in place of the raw one
quality_score_cleaned_company(row) ==
      B(row.name # NoStr) * 30
    + B(row.price_cleaned # NaN) * 25
    + B(row.company_cleaned # Str_Unknown) * 20
    + B(row.location_cleaned # Str_Unknown) * 15
    + B(row.url # NULL) * 10

\* calculate_quality_score (data_processor.py:211-222), for one row
quality_score_of(row) ==
      B(row.name # NoStr) * 30
    + B(row.price_cleaned # NaN) * 25
    + B(row.company # Str_Unknown) * 20
    + B(row.location_cleaned # Str_Unknown) * 15
    + B(row.url # NULL) * 10

\* ---- the table: a sequence of rows in row order, idx the DataFrame index

RawRow(idx, name, price, company, location, category, url, source) ==
    [idx |-> idx, name |-> name, price |-> price, company |-> company,
     location |-> location, category |-> category, url |-> url, source |-> source]

\* the row is (name, company)-equal to an earlier row of the table
DuplicatesEarlier(rows, k) ==
    \E j \in 1..(k - 1) : rows[j].name = rows[k].name /\ rows[j].company = rows[k].company

\* the row is (name, company)-equal to a later row of the table
DuplicatesLater(rows, k) ==
    \E j \in (k + 1)..Len(rows) : rows[j].name = rows[k].name /\ rows[j].company = rows[k].company

\* the rows k.. of the table for which keep[k] holds, in row order
RECURSIVE SelectRows(_, _, _)
SelectRows(rows, keep, k) ==
    IF k > Len(rows) THEN <<>>
    ELSE (IF keep[k] THEN <<rows[k]>> ELSE <<>>) \o SelectRows(rows, keep, k + 1)

\* drop_duplicates keeping the last row of each pair
drop_duplicates_keep_last(rows) ==
    SelectRows(rows, [k \in 1..Len(rows) |-> ~DuplicatesLater(rows, k)], 1)

\* drop_duplicates keyed on name and the cleaned company
drop_duplicates_cleaned_company(rows) ==
    SelectRows(rows, [k \in 1..Len(rows) |->
                        ~\E j \in 1..(k - 1) :
                            /\ rows[j].name = rows[k].name
                            /\ clean_company_name(rows[j].company)
                                   = clean_company_name(rows[k].company)], 1)

\* drop_duplicates with subset=['name']
drop_duplicates_by_name(rows) ==
    SelectRows(rows, [k \in 1..Len(rows) |->
                        ~\E j \in 1..(k - 1) : rows[j].name = rows[k].name], 1)

\* df.drop_duplicates(subset=['name', 'company'], keep='first')
\* (data_processor.py:52); missing values compare equal to each other
drop_duplicates(rows) ==
    SelectRows(rows, [k \in 1..Len(rows) |-> ~DuplicatesEarlier(rows, k)], 1)

\* clean_data without its dropna
dropna_nothing(rows) == rows

\* a dropna that removes only the rows missing both name and company
dropna_all_missing(rows) ==
    SelectRows(rows, [k \in 1..Len(rows) |->
                        rows[k].name # NoStr \/ rows[k].company # NoStr], 1)

\* df.dropna(subset=['name']) (data_processor.py:57)
dropna_name(rows) ==
    SelectRows(rows, [k \in 1..Len(rows) |-> rows[k].name # NoStr], 1)

\* data_processor.py:61-78: the columns clean_data adds to a row
CleanedRow(r) ==
    [idx |-> r.idx, name |-> r.name, price |-> r.price, company |-> r.company,
     location |-> r.location, category |-> r.category, url |-> r.url,
     source |-> r.source,
     price_cleaned |-> clean_price(r.price),
     location_cleaned |-> clean_location(r.location),
     state |-> extract_state(clean_location(r.location)),
     company_cleaned |-> clean_company_name(r.company),
     price_category |-> categorize_price(clean_price(r.price)),
     product_keywords |-> extract_keywords(r.name)]

\* the categories of generate_sample_data.py / scraper_multi_source.py in
\* sorted order, as pd.Categorical orders them
SortedCategories == <<"electronic components", "industrial machinery",
                      "plastic raw materials", "safety equipment", "textile fabrics">>

\* pd.Categorical(df['category']).codes (data_processor.py:202): the rank
\* of the row's category among the categories present
category_code(rows, c) ==
    Cardinality({ j \in 1..Len(SortedCategories) :
                    /\ j < IndexIn(c, SortedCategories)
                    /\ \E k \in 1..Len(rows) : rows[k].category = SortedCategories[j] })

\* data_processor.py:194-206: the columns add_derived_features adds to a row
FeaturedRow(rows, r) ==
    [idx |-> r.idx, name |-> r.name, price |-> r.price, company |-> r.company,
     location |-> r.location, category |-> r.category, url |-> r.url,
     source |-> r.source,
     price_cleaned |-> r.price_cleaned,
     location_cleaned |-> r.location_cleaned,
     state |-> r.state,
     company_cleaned |-> r.company_cleaned,
     price_category |-> r.price_category,
     product_keywords |-> r.product_keywords,
     name_length |-> Len(r.name),
     has_price |-> r.price_cleaned # NaN,
     category_code |-> category_code(rows, r.category),
     quality_score |-> quality_score_of(r)]

\* ---- the tables the model loads
EtlNames == {Str_SafetyHelmet, Str_IndustrialGloves, NoStr}
EtlPrices == {Str_Rs5000, Str_Rs2_50Lakh, Str_PriceNotAvailable}
EtlCompanies == {Str_Unknown, Str_ToBeUpdated, Str_PrimeIndustries, Str_AcmePvtLtd, NoStr}
EtlLocations == {Str_LocationNotAvailable, Str_India, Str_MumbaiMaharashtra,
                 Str_unknown_padded, NoStr}
EtlUrls == {NULL, "https://example.com/product/1234"}

\* every combination of the field values above, as a one-row table
SingleRowTables ==
    { <<RawRow(0, n, p, c, l, "safety equipment", u, "TradeIndia")>> :
        n \in EtlNames \ {Str_IndustrialGloves}, p \in EtlPrices, c \in EtlCompanies,
        l \in EtlLocations, u \in EtlUrls }

\* rows of multi-row tables: names and companies that repeat, under
\* different sources
PoolRow(n, c, src) ==
    RawRow(0, n, Str_Rs5000, c, Str_MumbaiMaharashtra, "safety equipment",
           "https://example.com/product/1234", src)
RowPool ==
    { PoolRow(Str_SafetyHelmet, Str_PrimeIndustries, "TradeIndia"),
      PoolRow(Str_SafetyHelmet, Str_PrimeIndustries, "Enhanced Sample Data"),
      PoolRow(Str_SafetyHelmet, Str_Unknown, "TradeIndia"),
      PoolRow(Str_IndustrialGloves, Str_PrimeIndustries, "TradeIndia"),
      PoolRow(Str_IndustrialGloves, Str_PrimeIndustries, "Alibaba"),
      PoolRow(NoStr, Str_PrimeIndustries, "TradeIndia"),
      PoolRow(NoStr, Str_PrimeIndustries, "Alibaba"),
      PoolRow(Str_SafetyHelmet, Str_AcmePvtLtd, "TradeIndia"),
      PoolRow(Str_SafetyHelmet, Str_AcmeTools, "Alibaba") }

\* ---- further values of one field each, in rows otherwise complete
Str_GujaratMaharashtra ==
    <<"G","u","j","a","r","a","t",","," ","M","a","h","a","r","a","s",
      "h","t","r","a">>
Str_newdelhi ==
    <<"n","e","w"," ","d","e","l","h","i">>
Str_TAMIL_NADU ==
    <<"T","A","M","I","L"," "," "," ","N","A","D","U">>
Str_Blank ==
    <<" "," "," ">>
Str_MumbaiComma ==
    <<"M","u","m","b","a","i",",">>
Str_PuneMH ==
    <<"P","u","n","e"," ",","," ","M","H"," ">>

Str_acme_pvt_ltd_padded ==
    <<" "," ","a","c","m","e"," ","t","o","o","l","s"," ","p","v","t",
      " ","l","t","d"," "," ">>
Str_ApexPrivateLimited ==
    <<"A","p","e","x"," ","P","r","i","v","a","t","e"," ","L","i","m",
      "i","t","e","d">>
Str_ZenithCorpInc ==
    <<"Z","e","n","i","t","h"," ","C","o","r","p","."," ","I","n","c">>
Str_CorporationBankLtd ==
    <<"C","O","R","P","O","R","A","T","I","O","N"," ","B","a","n","k",
      " ","L","t","d",".",","," ","P","u","n","e">>
Str_IncorporatedLtdx ==
    <<"I","n","c","o","r","p","o","r","a","t","e","d"," ","L","t","d",
      "x">>
Str_PvtLtdOnly ==
    <<"P","v","t"," ","L","t","d">>
Str_PrivateLtdLimited ==
    <<"A","c","m","e"," ","P","r","i","v","a","t","e"," ","L","t","d",
      ".","L","i","m","i","t","e","d">>

NormCompanies == {Str_acme_pvt_ltd_padded, Str_ApexPrivateLimited, Str_ZenithCorpInc,
                  Str_CorporationBankLtd, Str_IncorporatedLtdx, Str_PvtLtdOnly,
                  Str_PrivateLtdLimited}

NormLocations == {Str_GujaratMaharashtra, Str_newdelhi, Str_TAMIL_NADU, Str_Blank,
                  Str_MumbaiComma, Str_PuneMH, Str_KochiKerala}

NormRow(n, c, l) ==
    RawRow(0, n, Str_Rs5000, c, l, "safety equipment",
           "https://example.com/product/1234", "TradeIndia")

NormTables ==
    { <<NormRow(Str_SafetyHelmet, Str_PrimeIndustries, l)>> : l \in NormLocations }
    \cup { <<NormRow(Str_SafetyHelmet, c, Str_India)>> : c \in NormCompanies }

\* a nameless row followed by a named row of each combination of the other
\* field values
ScoreTables ==
    { <<PoolRow(NoStr, Str_PrimeIndustries, "Alibaba")>> \o t :
        t \in { s \in SingleRowTables : s[1].name # NoStr } }

MaxRows == 3      \* most rows of a loaded table

\* pd.read_csv gives the rows the index 0, 1, 2, ...
WithIndex(rows) ==
    [k \in 1..Len(rows) |->
        RawRow(k - 1, rows[k].name, rows[k].price, rows[k].company, rows[k].location,
               rows[k].category, rows[k].url, rows[k].source)]

Tables ==
    { WithIndex(t) : t \in SeqsUpTo(RowPool, MaxRows) \cup SingleRowTables
                              \cup NormTables \cup ScoreTables }

EtlIdle ==
    /\ df0 = <<>>
    /\ df = <<>>
    /\ etl_pc = "idle"

ExIdle ==
    /\ ex_call = [doc |-> <<>>, category |-> "", source_name |-> "", max_results |-> 0]
    /\ ex_products = <<>>
    /\ ex_prior = <<>>
    /\ ex_k = 0
    /\ ex_count = 0
    /\ ex_seen = {}
    /\ ex_emitted = <<>>
    /\ ex_pc = "idle"

PipeIdle ==
    /\ pl_category = ""
    /\ pl_products = <<>>
    /\ pl_log = [scraped |-> 0, requested |-> 0, before |-> <<>>]
    /\ pl_file = <<>>
    /\ pl_pc = "idle"

KwIdle ==
    /\ kw_name = NoStr
    /\ kw_keywords = <<>>
    /\ kw_pc = "idle"

\* ======================================================================
\* app.py: POST /api/scrape and the background thread
\* ======================================================================

\* the request bodies the model posts: categories, sources, products_per_category
CategoryLists == { SubSeq(CategoryIds, 1, n) : n \in 0..Min(MaxCats, Len(CategoryIds)) }
SourceLists == { <<"tradeindia">>, <<"sample">>, <<"tradeindia", "sample">> }
PerCategoryValues == { 5, DEFAULT_PPC }

\* [s for s in sources if s != 'sample'] (app.py:144)
RECURSIVE real_sources(_)
real_sources(srcs) ==
    IF srcs = <<>> THEN <<>>
    ELSE IF Head(srcs) # "sample"
         THEN <<Head(srcs)>> \o real_sources(Tail(srcs))
         ELSE real_sources(Tail(srcs))

\* 'sample' in sources (app.py:149)
HasSample(srcs) == \E k \in 1..Len(srcs) : srcs[k] = "sample"

\* The product dicts, projected on the fields the orchestration reads.
Product(cat, src) == [category |-> cat, source |-> src]

\* scrape_category as the orchestration sees it: source k appended ys[k]
\* records (0 for an unknown key), in list order.
RECURSIVE ScrapedRecords(_, _, _, _)
ScrapedRecords(cat, srcs, ys, k) ==
    IF k > Len(srcs) THEN <<>>
    ELSE (IF SourceName(srcs[k]) = NULL THEN <<>>
          ELSE Repeat(Product(cat, SourceName(srcs[k])), ys[k]))
         \o ScrapedRecords(cat, srcs, ys, k + 1)

\* add_sample_products (scraper_multi_source.py:201-220): the records appended
SampleRecords(cat, count) ==
    Repeat(Product(cat, "Enhanced Sample Data"), Min(count, TemplateCount(cat) * 4))

\* the backfill count taken from the request
sample_count_requested(a) == a.products_per_category

\* app.py:150: count=35, whatever arguments a run_scraping was given
sample_count(a) == SAMPLE_COUNT

\* the appends putting the new records in front
appended_in_front(lst, recs) == recs \o lst

\* self.products.append(product) for each of recs in turn
\* (scraper_multi_source.py:141, 220)
appended(lst, recs) == lst \o recs

\* f'Scraping {...}...', f'Completed! {n} products scraped', f'Error: {e}'
Message(prefix, arg) == [prefix |-> prefix, arg |-> arg]

\* int((i / len(categories)) * 100) (app.py:138), i counted from 0
ProgressAt(i, n) == (i * 100) \div n

AppStart ==
    /\ scraping_status = [is_scraping |-> FALSE, progress |-> 0,
                          current_category |-> "", total_products |-> 0,
                          message |-> Message("Ready", "")]
    /\ pc = [r \in Requests |-> "new"]
    /\ args = [r \in Requests |-> [categories |-> <<>>, sources |-> <<>>,
                                  products_per_category |-> 0]]
    /\ loop_i = [r \in Requests |-> 0]
    /\ products = [r \in Requests |-> <<>>]
    /\ saved = [r \in Requests |-> <<>>]
    /\ failed = [r \in Requests |-> FALSE]
    /\ response = [r \in Requests |-> NULL]
    /\ scraper = [r \in Requests |-> 0]
    /\ writers = [o \in Requests |-> {}]

\* one scraper object at module level, handed to every thread
MultiSourceScraper_shared(held) == 1

\* MultiSourceScraper() (app.py:134, scraper_multi_source.py:17-20): a new
\* object, other than every object constructed before; held names the
\* objects the threads hold
MultiSourceScraper(held) == 1 + Cardinality({ r \in Requests : held[r] # 0 })

Goto(r, l) == pc' = [pc EXCEPT ![r] = l]
SetStatus(k, v) == scraping_status' = [scraping_status EXCEPT ![k] = v]

\* start_scraping, app.py:95-99: the guard
start_scraping_check(r) ==
    /\ pc[r] = "new"
    /\ IF scraping_status.is_scraping
       THEN /\ response' = [response EXCEPT ![r] = "400 Scraping already in progress"]
            /\ Goto(r, "rejected")
       ELSE /\ Goto(r, "L101")
            /\ UNCHANGED response
    /\ UNCHANGED <<scraping_status, args, loop_i, products, saved, failed>>
    /\ UNCHANGED <<scraper, writers>>

\* start_scraping, app.py:101-123: read the body, validate, start the thread
start_scraping_spawn(r) ==
    /\ pc[r] = "L101"
    /\ \E cats \in CategoryLists, srcs \in SourceLists, ppc \in PerCategoryValues :
          IF cats = <<>>
          THEN /\ response' = [response EXCEPT ![r] = "400 Please select at least one category"]
               /\ Goto(r, "rejected")
               /\ UNCHANGED args
          ELSE /\ response' = [response EXCEPT ![r] = "200 Scraping started"]
               /\ args' = [args EXCEPT ![r] = [categories |-> cats, sources |-> srcs,
                                               products_per_category |-> ppc]]
               /\ Goto(r, "L129")
    /\ UNCHANGED <<scraping_status, loop_i, products, saved, failed>>
    /\ UNCHANGED <<scraper, writers>>

\* run_scraping, app.py:129
run_L129(r) ==
    /\ pc[r] = "L129"
    /\ SetStatus("is_scraping", TRUE)
    /\ Goto(r, "L130")
    /\ UNCHANGED <<args, loop_i, products, saved, failed, response>>
    /\ UNCHANGED <<scraper, writers>>

\* app.py:130
run_L130(r) ==
    /\ pc[r] = "L130"
    /\ SetStatus("progress", 0)
    /\ Goto(r, "L131")
    /\ UNCHANGED <<args, loop_i, products, saved, failed, response>>
    /\ UNCHANGED <<scraper, writers>>

\* app.py:131
run_L131(r) ==
    /\ pc[r] = "L131"
    /\ SetStatus("total_products", 0)
    /\ Goto(r, "L134")
    /\ UNCHANGED <<args, loop_i, products, saved, failed, response>>
    /\ UNCHANGED <<scraper, writers>>

\* app.py:134: scraper = MultiSourceScraper(); the constructor may raise
\* (UserAgent(), requests.Session()). The for loop starts at i = 0.
run_L134(r) ==
    /\ pc[r] = "L134"
    /\ \E raises \in BOOLEAN :
          /\ IF raises THEN Goto(r, "L165") ELSE Goto(r, "L137")
          /\ failed' = [failed EXCEPT ![r] = raises]
          /\ scraper' = [scraper EXCEPT ![r] = IF raises THEN 0 ELSE MultiSourceScraper(scraper)]
    /\ UNCHANGED writers
    /\ products' = [products EXCEPT ![r] = <<>>]
    /\ loop_i' = [loop_i EXCEPT ![r] = 0]
    /\ UNCHANGED <<scraping_status, args, saved, response>>

\* app.py:137
run_L137(r) ==
    /\ pc[r] = "L137"
    /\ SetStatus("current_category", category_title(args[r].categories[loop_i[r] + 1]))
    /\ Goto(r, "L138")
    /\ UNCHANGED <<args, loop_i, products, saved, failed, response>>
    /\ UNCHANGED <<scraper, writers>>

\* app.py:138
run_L138(r) ==
    /\ pc[r] = "L138"
    /\ SetStatus("progress", ProgressAt(loop_i[r], Len(args[r].categories)))
    /\ Goto(r, "L139")
    /\ UNCHANGED <<args, loop_i, products, saved, failed, response>>
    /\ UNCHANGED <<scraper, writers>>

\* app.py:139: the message is built from the status record's current_category
run_L139(r) ==
    /\ pc[r] = "L139"
    /\ SetStatus("message", Message("Scraping ", scraping_status.current_category))
    /\ Goto(r, "L142")
    /\ UNCHANGED <<args, loop_i, products, saved, failed, response>>
    /\ UNCHANGED <<scraper, writers>>

\* app.py:142-150: one category pass on the thread's own scraper; an
\* unexpected exception leaves what was appended and goes to the handler
run_L142(r) ==
    /\ pc[r] = "L142"
    /\ LET cat == category_name(args[r].categories[loop_i[r] + 1])
           real == real_sources(args[r].sources)
       IN \E ys \in [1..Len(real) -> 0..Min(MaxYield, MAX_PER_SOURCE)], raises \in BOOLEAN :
             /\ products' = [products EXCEPT ![r] =
                   appended(appended(@, IF real # <<>>
                                        THEN ScrapedRecords(cat, real, ys, 1) ELSE <<>>),
                            IF HasSample(args[r].sources) /\ ~raises
                            THEN SampleRecords(cat, sample_count(args[r])) ELSE <<>>)]
             /\ IF raises THEN Goto(r, "L165") ELSE Goto(r, "L154")
             /\ failed' = [failed EXCEPT ![r] = raises]
    /\ writers' = IF products'[r] # products[r]
                  THEN [writers EXCEPT ![scraper[r]] = @ \cup {r}]
                  ELSE writers
    /\ UNCHANGED <<scraping_status, args, loop_i, saved, response, scraper>>

\* app.py:154, then the next iteration of the loop or the end of it
run_L154(r) ==
    /\ pc[r] = "L154"
    /\ SetStatus("total_products", Len(products[r]))
    /\ loop_i' = [loop_i EXCEPT ![r] = @ + 1]
    /\ IF loop_i[r] + 1 < Len(args[r].categories)
       THEN Goto(r, "L137") ELSE Goto(r, "L157")
    /\ UNCHANGED <<args, products, saved, failed, response>>
    /\ UNCHANGED <<scraper, writers>>

\* app.py:157: save_data (scraper_multi_source.py:222-252) writes nothing for
\* an empty list; opening or writing a file may raise
run_L157(r) ==
    /\ pc[r] = "L157"
    /\ \E raises \in BOOLEAN :
          IF raises /\ products[r] # <<>>
          THEN /\ Goto(r, "L165")
               /\ failed' = [failed EXCEPT ![r] = TRUE]
               /\ UNCHANGED saved
          ELSE /\ Goto(r, "L159")
               /\ saved' = [saved EXCEPT ![r] = products[r]]
               /\ UNCHANGED failed
    /\ UNCHANGED <<scraping_status, args, loop_i, products, response>>
    /\ UNCHANGED <<scraper, writers>>

\* app.py:159
run_L159(r) ==
    /\ pc[r] = "L159"
    /\ SetStatus("progress", 100)
    /\ Goto(r, "L160")
    /\ UNCHANGED <<args, loop_i, products, saved, failed, response>>
    /\ UNCHANGED <<scraper, writers>>

\* app.py:160-162
run_L160(r) ==
    /\ pc[r] = "L160"
    /\ SetStatus("message", Message("Completed! ", Len(products[r])))
    /\ Goto(r, "L168")
    /\ UNCHANGED <<args, loop_i, products, saved, failed, response>>
    /\ UNCHANGED <<scraper, writers>>

\* app.py:164-165
run_L165(r) ==
    /\ pc[r] = "L165"
    /\ SetStatus("message", Message("Error: ", "exception"))
    /\ Goto(r, "L168")
    /\ UNCHANGED <<args, loop_i, products, saved, failed, response>>
    /\ UNCHANGED <<scraper, writers>>

\* app.py:167-168
run_L168(r) ==
    /\ pc[r] = "L168"
    /\ SetStatus("is_scraping", FALSE)
    /\ Goto(r, "done")
    /\ UNCHANGED <<args, loop_i, products, saved, failed, response>>
    /\ UNCHANGED <<scraper, writers>>

\* GET /api/status (app.py:170-176), from any client at any time: the
\* answer is the status record as it is; nothing is assigned
get_status == UNCHANGED appVars

NextApp ==
    /\ UNCHANGED <<aggVars, priceVars, etlVars, exVars, plVars, kwVars>>
    /\ \/ get_status
       \/ \E r \in Requests :
            \/ start_scraping_check(r)
            \/ start_scraping_spawn(r)
            \/ run_L129(r)
            \/ run_L130(r)
            \/ run_L131(r)
            \/ run_L134(r)
            \/ run_L137(r)
            \/ run_L138(r)
            \/ run_L139(r)
            \/ run_L142(r)
            \/ run_L154(r)
            \/ run_L157(r)
            \/ run_L159(r)
            \/ run_L160(r)
            \/ run_L165(r)
            \/ run_L168(r)

InitApp == AppStart /\ AggIdle /\ PriceIdle /\ EtlIdle /\ ExIdle /\ PipeIdle /\ KwIdle

SpecApp == InitApp /\ [][NextApp]_vars

\* the steps of the run_scraping thread of request r
run_scraping(r) ==
    /\ UNCHANGED <<aggVars, priceVars, etlVars, exVars, plVars, kwVars>>
    /\ \/ run_L129(r) \/ run_L130(r) \/ run_L131(r) \/ run_L134(r)
       \/ run_L137(r) \/ run_L138(r) \/ run_L139(r) \/ run_L142(r)
       \/ run_L154(r) \/ run_L157(r) \/ run_L159(r) \/ run_L160(r)
       \/ run_L165(r) \/ run_L168(r)

\* A started thread is scheduled again and again, and each of its steps
\* ends: the fetches return or raise within their timeout
\* (scraper_multi_source.py:74), the sleeps are finite.
SpecLive == InitApp /\ [][NextApp]_vars /\ \A r \in Requests : WF_vars(run_scraping(r))

\* one invocation on its own: the first request and its thread, no other
\* request arriving
NextRun == NextApp /\ \A r \in Requests \ {1} : pc'[r] = "new"

SpecRun == InitApp /\ [][NextRun]_vars

\* ======================================================================
\* scraper_multi_source.py: one call of scrape_category, source by source
\* ======================================================================

\* scrape_category is called on a fresh scraper (self.products = [])
InitAgg ==
    /\ AppStart
    /\ PriceIdle
    /\ EtlIdle
    /\ ExIdle
    /\ PipeIdle
    /\ KwIdle
    /\ sc_products = <<>>
    /\ sc_call \in { [category |-> "safety equipment", sources |-> srcs, max_per_source |-> cap] :
                        srcs \in SeqsUpTo(SourceKeys, MaxSources), cap \in 1..MaxCap }
    /\ sc_idx = 0
    /\ sc_total = 0
    /\ sc_log = <<>>
    /\ sc_pc = "loop"

\* scraper_multi_source.py:156-158: one iteration of `for source in sources`
scrape_category_source ==
    /\ sc_pc = "loop"
    /\ sc_idx < Len(sc_call.sources)
    /\ \E fetch \in Fetches :
          LET key == sc_call.sources[sc_idx + 1]
              got == scrape_source(key, sc_call.category, sc_call.max_per_source, fetch)
          IN /\ sc_products' = sc_products \o got.appended
             /\ sc_log' = Append(sc_log, [source |-> key, fetch |-> fetch,
                                          count |-> got.count,
                                          grew |-> Len(got.appended),
                                          raised |-> got.raised])
             /\ IF got.raised
                THEN /\ sc_pc' = "raised"
                     /\ UNCHANGED <<sc_idx, sc_total>>
                ELSE /\ sc_idx' = sc_idx + 1
                     /\ sc_total' = sc_total + got.count
                     /\ sc_pc' = "loop"
    /\ UNCHANGED <<sc_call>>

\* scraper_multi_source.py:160-161
scrape_category_return ==
    /\ sc_pc = "loop"
    /\ sc_idx = Len(sc_call.sources)
    /\ sc_pc' = "returned"
    /\ UNCHANGED <<sc_products, sc_call, sc_idx, sc_total, sc_log>>

NextAgg ==
    /\ UNCHANGED <<appVars, priceVars, etlVars, exVars, plVars, kwVars>>
    /\ \/ scrape_category_source
       \/ scrape_category_return

SpecAgg == InitAgg /\ [][NextAgg]_vars

\* ======================================================================
\* data_processor.py: one price through clean_price and categorize_price
\* ======================================================================

InitPrice ==
    /\ AppStart
    /\ AggIdle
    /\ EtlIdle
    /\ ExIdle
    /\ PipeIdle
    /\ KwIdle
    /\ price_text = NoStr
    /\ gen_numeric = 0
    /\ price_cleaned = NaN
    /\ price_category = Cat_Unknown
    /\ pr_pc = "start"

\* generate_sample_data.py:81-96: a generated record's price text
generate_price ==
    /\ pr_pc = "start"
    /\ \E p \in GenPrices, no_price \in BOOLEAN :
          IF no_price
          THEN /\ price_text' = Str_PriceNotAvailable
               /\ gen_numeric' = 0
          ELSE /\ price_text' = generate_price_text(p)
               /\ gen_numeric' = p
    /\ pr_pc' = "raw"
    /\ UNCHANGED <<price_cleaned, price_category>>

\* a price text of another producer (a scraped page, a hand-made file)
other_price ==
    /\ pr_pc = "start"
    /\ price_text' \in OtherPriceTexts
    /\ pr_pc' = "raw"
    /\ UNCHANGED <<gen_numeric, price_cleaned, price_category>>

\* data_processor.py:61
clean_price_column ==
    /\ pr_pc = "raw"
    /\ price_cleaned' = clean_price(price_text)
    /\ pr_pc' = "cleaned"
    /\ UNCHANGED <<price_text, gen_numeric, price_category>>

\* data_processor.py:74
categorize_price_column ==
    /\ pr_pc = "cleaned"
    /\ price_category' = categorize_price(price_cleaned)
    /\ pr_pc' = "categorized"
    /\ UNCHANGED <<price_text, gen_numeric, price_cleaned>>

NextPrice ==
    /\ UNCHANGED <<appVars, aggVars, etlVars, exVars, plVars, kwVars>>
    /\ \/ generate_price
       \/ other_price
       \/ clean_price_column
       \/ categorize_price_column

SpecPrice == InitPrice /\ [][NextPrice]_vars

\* ======================================================================
\* data_processor.py: DataProcessor(filepath), clean_data, add_derived_features
\* ======================================================================

\* DataProcessor.__init__ / load_data (data_processor.py:13-40)
InitEtl ==
    /\ AppStart
    /\ AggIdle
    /\ PriceIdle
    /\ ExIdle
    /\ PipeIdle
    /\ KwIdle
    /\ df0 \in Tables
    /\ df = df0
    /\ etl_pc = "loaded"

\* clean_data (data_processor.py:42-84)
clean_data ==
    /\ etl_pc = "loaded"
    /\ LET kept == dropna_name(drop_duplicates(df))
       IN df' = [k \in 1..Len(kept) |-> CleanedRow(kept[k])]
    /\ etl_pc' = "cleaned"
    /\ UNCHANGED df0

\* add_derived_features (data_processor.py:187-209)
add_derived_features ==
    /\ etl_pc = "cleaned"
    /\ df' = [k \in 1..Len(df) |-> FeaturedRow(df, df[k])]
    /\ etl_pc' = "featured"
    /\ UNCHANGED df0

\* data_processor.py:61-78 on a row that has the columns already: each is
\* assigned anew from the raw columns
ReCleanedRow(r) ==
    [r EXCEPT !.price_cleaned = clean_price(r.price),
              !.location_cleaned = clean_location(r.location),
              !.state = extract_state(clean_location(r.location)),
              !.company_cleaned = clean_company_name(r.company),
              !.price_category = categorize_price(clean_price(r.price)),
              !.product_keywords = extract_keywords(r.name)]

\* data_processor.py:194-206 on a row that has the columns already
ReFeaturedRow(rows, r) ==
    [r EXCEPT !.name_length = Len(r.name),
              !.has_price = r.price_cleaned # NaN,
              !.category_code = category_code(rows, r.category),
              !.quality_score = quality_score_of(r)]

\* clean_data called again on the processor (data_processor.py:42-84).
\* self.df.duplicated() (line 51) looks at every column; product_keywords
\* holds lists, which cannot be hashed, so with at least one row it raises
\* TypeError before anything is assigned. An empty frame is answered
\* without hashing.
clean_data_again ==
    /\ etl_pc = "featured"
    /\ IF df # <<>>
       THEN /\ etl_pc' = "raised"
            /\ UNCHANGED df
       ELSE /\ LET kept == dropna_name(drop_duplicates(df))
               IN df' = [k \in 1..Len(kept) |-> ReCleanedRow(kept[k])]
            /\ etl_pc' = "recleaned"
    /\ UNCHANGED df0

\* add_derived_features called again (data_processor.py:187-209)
add_derived_features_again ==
    /\ etl_pc = "recleaned"
    /\ df' = [k \in 1..Len(df) |-> ReFeaturedRow(df, df[k])]
    /\ etl_pc' = "refeatured"
    /\ UNCHANGED df0

NextEtl ==
    /\ UNCHANGED <<appVars, aggVars, priceVars, exVars, plVars, kwVars>>
    /\ \/ clean_data
       \/ add_derived_features
       \/ clean_data_again
       \/ add_derived_features_again

SpecEtl == InitEtl /\ [][NextEtl]_vars

\* ======================================================================
\* data_processor.py: one call of extract_keywords
\* ======================================================================

\* the words the names are made of: keywords, stop words in both cases and
\* words of fewer than 3 characters
KwWords == { <<"S","a","f","e","t","y">>, <<"H","e","l","m","e","t">>,
             <<"T","H","E">>, <<"f","o","r">>, <<"P","P">>, <<"K","i","t">> }

\* four keywords around a stop word and a word of two letters
KwBase == << <<"H","e","a","v","y">>, <<"D","u","t","y">>, <<"a","n","d">>,
             <<"P","U">>, <<"S","t","e","e","l">>, <<"T","o","e">> >>

MaxWords == 2     \* most words drawn for a name, after the base

\* ' '.join(words)
RECURSIVE JoinWords(_)
JoinWords(words) ==
    IF words = <<>> THEN <<>>
    ELSE IF Len(words) = 1 THEN words[1]
    ELSE words[1] \o <<" ">> \o JoinWords(Tail(words))

\* names with tabs, line ends and runs of blanks between and around the words
Str_SpacedName ==
    <<" ","\t","F","i","r","e"," "," ","a","t","\n","E","x","i","t"," ">>

KwNames ==
    { JoinWords(base \o extra) : base \in {<<>>, KwBase}, extra \in SeqsUpTo(KwWords, MaxWords) }
        \cup {Str_SpacedName, Str_Blank, NoStr}

InitKeywords ==
    /\ AppStart
    /\ AggIdle
    /\ PriceIdle
    /\ EtlIdle
    /\ ExIdle
    /\ PipeIdle
    /\ kw_name \in KwNames
    /\ kw_keywords = <<>>
    /\ kw_pc = "called"

\* extract_keywords(product_name) (data_processor.py:173-185)
extract_keywords_call ==
    /\ kw_pc = "called"
    /\ kw_keywords' = extract_keywords(kw_name)
    /\ kw_pc' = "returned"
    /\ UNCHANGED kw_name

NextKeywords ==
    /\ UNCHANGED <<appVars, aggVars, priceVars, etlVars, exVars, plVars>>
    /\ extract_keywords_call

SpecKeywords == InitKeywords /\ [][NextKeywords]_vars

\* ======================================================================
\* scraper_multi_source.py: one call of extract_products, link by link
\* ======================================================================

\* `if count >= max_results: break` taken one survivor late
cap_reached_late(count, max_results) == count > max_results

\* scraper_multi_source.py:98
cap_reached(count, max_results) == count >= max_results

\* ---- the links the model puts into documents
Str_SafetyVest == <<"S","a","f","e","t","y"," ","V","e","s","t">>
Str_FaceMasks == <<"F","a","c","e"," ","M","a","s","k","s">>
Str_Fifty ==
    <<"H","e","a","v","y"," ","D","u","t","y"," ">>
    \o <<"I","n","d","u","s","t","r","i","a","l"," ">>
    \o Str_SafetyHelmet
    \o <<" ","W","i","t","h"," ","V","i","s","o","r"," ","S","e","t">>

Link_Vest == Link(Str_SafetyVest, Str_Home, "/p/vest", NoStr)
Link_Masks == Link(NoStr, Str_FaceMasks, "/p/masks", NoStr)
Link_Fifty == Link(NoStr, Str_Fifty, "/p/visor", Str_Rs5000)
Link_X199 == Link(NoStr, Repeat("x", 199), "/p/199", NoStr)
Link_X200 == Link(NoStr, Repeat("x", 200), "/p/200", NoStr)
Link_Empty == Link(<<>>, <<" ">>, "", NoStr)

LinkPool == {Link_Home, Link_Contact, Link_Helmet, Link_Vest, Link_Masks,
             Link_Fifty, Link_X199, Link_X200, Link_Empty}

\* ---- links with a price text in their parent, one of each kind
Str_PriceOnwards ==
    <<" ","P","r","i","c","e",":"," ","1",",","2","5",",","0","0","0",
      ".","5","0"," ","o","n","w","a","r","d","s"," ">>
Str_PriceOnCall ==
    <<"P","r","i","c","e"," ","o","n"," ","c","a","l","l">>
Str_PriceCommaRs500 ==
    <<"P","r","i","c","e",","," ","R","s"," ","5","0","0">>
Str_Rs12to15 ==
    <<"R","s"," ","1","2"," ","-"," ","1","5"," ","p","e","r"," ","p",
      "i","e","c","e">>

Link_Onwards == Link(Str_SafetyVest, <<>>, "/p/1", Str_PriceOnwards)
Link_OnCall == Link(Str_SafetyHelmet, <<>>, "/p/2", Str_PriceOnCall)
Link_CommaFirst == Link(Str_IndustrialGloves, <<>>, "/p/3", Str_PriceCommaRs500)
Link_Range == Link(Str_Fifty, <<>>, "/p/4", Str_Rs12to15)

PriceLinks == {Link_Onwards, Link_OnCall, Link_CommaFirst, Link_Range, Link_Vest}

\* documents of one or two of them
PriceDocs == SeqsUpTo(PriceLinks, 2)

MaxDocLen == 3       \* most <a href> elements of a document

\* a record a previous call left in self.products
PriorProduct == ProductOf(Link_Gloves, "textile fabrics", "Alibaba")

\* extract_products is called with any document, on a scraper that may hold
\* records already
InitExtract ==
    /\ AppStart
    /\ AggIdle
    /\ PriceIdle
    /\ EtlIdle
    /\ PipeIdle
    /\ KwIdle
    /\ ex_call \in { [doc |-> d, category |-> "safety equipment",
                      source_name |-> "TradeIndia", max_results |-> cap] :
                        d \in SeqsUpTo(LinkPool, MaxDocLen) \cup PriceDocs, cap \in 0..MaxCap }
    /\ ex_prior \in { <<>>, <<PriorProduct>> }
    /\ ex_products = ex_prior
    /\ ex_k = 0
    /\ ex_count = 0
    /\ ex_seen = {}
    /\ ex_emitted = <<>>
    /\ ex_pc = "loop"

\* scraper_multi_source.py:97-145: one iteration of `for link in all_links`
\* that passes the cap test
extract_products_link ==
    /\ ex_pc = "loop"
    /\ ex_k < Len(ex_call.doc)
    /\ ~cap_reached(ex_count, ex_call.max_results)
    /\ LET link == ex_call.doc[ex_k + 1]
           name == LinkName(link)
           valid == /\ name # <<>>
                    /\ 10 < Len(name) /\ Len(name) < 200
                    /\ name \notin ex_seen
                    /\ ~IsNoise(name)
       IN /\ ex_seen' = IF valid THEN ex_seen \cup {name} ELSE ex_seen
          /\ ex_products' = IF valid
                            THEN Append(ex_products,
                                        ProductOf(link, ex_call.category, ex_call.source_name))
                            ELSE ex_products
          /\ ex_count' = IF valid THEN ex_count + 1 ELSE ex_count
          /\ ex_emitted' = Append(ex_emitted, valid)
    /\ ex_k' = ex_k + 1
    /\ UNCHANGED <<ex_call, ex_prior, ex_pc>>

\* scraper_multi_source.py:98-99 and 147: the break, or the end of the list
extract_products_return ==
    /\ ex_pc = "loop"
    /\ (ex_k = Len(ex_call.doc) \/ cap_reached(ex_count, ex_call.max_results))
    /\ ex_pc' = "returned"
    /\ UNCHANGED <<ex_call, ex_products, ex_prior, ex_k, ex_count, ex_seen, ex_emitted>>

NextExtract ==
    /\ UNCHANGED <<appVars, aggVars, priceVars, etlVars, plVars, kwVars>>
    /\ \/ extract_products_link
       \/ extract_products_return

SpecExtract == InitExtract /\ [][NextExtract]_vars

\* ======================================================================
\* scraper_multi_source.py main / data_processor.py: one category scraped
\* from one source, backfilled, saved as CSV, loaded and processed
\* ======================================================================

Str_GlobalTraders == <<"G","l","o","b","a","l"," ","T","r","a","d","e","r","s">>
Str_Premium == <<"P","r","e","m","i","u","m">>
Str_PVCGranules == <<"P","V","C"," ","G","r","a","n","u","l","e","s">>
Str_HDPEPellets == <<"H","D","P","E"," ","P","e","l","l","e","t","s">>

\* product_templates.get(category, [])[i - 1] for the first two templates of
\* the categories the model backfills (scraper_multi_source.py:166-201)
TemplateAt(category, i) ==
    CASE category = "safety equipment" /\ i = 1 -> Str_SafetyHelmet
      [] category = "safety equipment" /\ i = 2 -> Str_IndustrialGloves
      [] category = "plastic raw materials" /\ i = 1 -> Str_PVCGranules
      [] category = "plastic raw materials" /\ i = 2 -> Str_HDPEPellets

\* one iteration's random draws (scraper_multi_source.py:204-215)
Draw(template, prefix, company, city, price) ==
    [template |-> template, prefix |-> prefix, company |-> company,
     city |-> city, price |-> price]

DrawPool ==
    { Draw(1, <<>>, "Prime Industries", "Mumbai, Maharashtra", 5000),
      Draw(1, Str_Premium, "Prime Industries", "Mumbai, Maharashtra", 1000),
      Draw(1, <<>>, "Global Traders", "Mumbai, Maharashtra", 5000),
      Draw(2, <<>>, "Prime Industries", "Mumbai, Maharashtra", 500000) }

\* scraper_multi_source.py:207-218: the product dict of one iteration
\* (scraped_at, a timestamp, is left out)
SampleProduct(category, draw) ==
    [name |-> strip(draw.prefix \o <<" ">> \o TemplateAt(category, draw.template)),
     price |-> <<RUPEE, " ">> \o FormatComma(draw.price),
     price_numeric |-> Float(draw.price),
     company |-> draw.company,
     location |-> draw.city,
     category |-> category,
     rating |-> NULL,
     url |-> "https://example.com/product/1234",
     source |-> "Enhanced Sample Data"]

Max(a, b) == IF a >= b THEN a ELSE b

\* the iterations of the loop when min() is forgotten
sample_size_uncapped(category, count) == Max(0, count)

\* len(range(min(count, len(templates) * 4))) (scraper_multi_source.py:203)
sample_size(category, count) == Max(0, Min(count, TemplateCount(category) * 4))

\* add_sample_products (scraper_multi_source.py:163-220): the records
\* appended; random.choice raises on an empty template list
add_sample_products(category, count, draws) ==
    IF sample_size(category, count) > 0 /\ TemplateCount(category) = 0
    THEN [raised |-> TRUE, appended |-> <<>>]
    ELSE [raised |-> FALSE,
          appended |-> [k \in 1..sample_size(category, count) |->
                           SampleProduct(category, draws[k])]]

\* the text of a field that is a Python str, as characters
Chars(text) ==
    CASE text = "To be updated" -> Str_ToBeUpdated
      [] text = "India" -> Str_India
      [] text = "Prime Industries" -> Str_PrimeIndustries
      [] text = "Global Traders" -> Str_GlobalTraders
      [] text = "Mumbai, Maharashtra" -> Str_MumbaiMaharashtra

\* df.to_csv (scraper_multi_source.py:237-238): one line of the file, the
\* columns the DataProcessor reads; None is written as the empty field
CsvLine(product) ==
    [name |-> product.name, price |-> product.price,
     company |-> Chars(product.company), location |-> Chars(product.location),
     category |-> product.category,
     url |-> IF product.url = NULL THEN "" ELSE product.url,
     source |-> product.source]

\* the field texts pd.read_csv reads as missing
NaTexts == { <<>>, <<"N","A">>, <<"N","/","A">>, <<"N","U","L","L">>, <<"N","a","N">>,
            <<"N","o","n","e">>, <<"n","/","a">>, <<"n","a","n">>, <<"n","u","l","l">> }

read_csv_field(text) == IF text \in NaTexts THEN NoStr ELSE text

\* pd.read_csv (data_processor.py:28): the table of the file
read_csv(lines) ==
    [k \in 1..Len(lines) |->
        RawRow(k - 1, read_csv_field(lines[k].name), read_csv_field(lines[k].price),
               read_csv_field(lines[k].company), read_csv_field(lines[k].location),
               lines[k].category,
               IF lines[k].url = "" THEN NULL ELSE lines[k].url,
               lines[k].source)]

\* ---- the inputs of the pipeline
PipeCategories == {"safety equipment", "plastic raw materials", "office supplies"}

PipeDocs == { <<Link_Home, Link_Helmet, Link_Vest, Link_Fifty>>,
             <<Link_Helmet, Link_Helmet, Link_Contact>> }

PipeFetches ==
    {Fetch("exception", 0, <<>>)} \cup { Fetch("response", 200, d) : d \in PipeDocs }

MaxSampleCount == 2      \* the small counts asked of add_sample_products; the
                         \* random draws repeat with this period

\* counts below, at and just above the 4 * templates of a category
SampleCounts ==
    (-1..MaxSampleCount) \cup {SAMPLE_COUNT}
        \cup { TemplateCount(c) * 4 + 1 : c \in PipeCategories }

\* main (scraper_multi_source.py:254-289) for one category
InitPipe ==
    /\ AppStart
    /\ AggIdle
    /\ PriceIdle
    /\ EtlIdle
    /\ ExIdle
    /\ KwIdle
    /\ pl_category \in PipeCategories
    /\ pl_products = <<>>
    /\ pl_log = [scraped |-> 0, requested |-> 0, before |-> <<>>]
    /\ pl_file = <<>>
    /\ pl_pc = "scrape"

\* scraper_multi_source.py:278-282 with one source: scrape_category
pipe_scrape_category ==
    /\ pl_pc = "scrape"
    /\ \E fetch \in PipeFetches :
          LET got == scrape_source("tradeindia", pl_category, MAX_PER_SOURCE, fetch)
          IN /\ pl_products' = pl_products \o got.appended
             /\ pl_log' = [pl_log EXCEPT !.scraped = got.count]
    /\ pl_pc' = "backfill"
    /\ UNCHANGED <<pl_category, pl_file, df0, df, etl_pc>>

\* scraper_multi_source.py:285: add_sample_products(category, count)
pipe_add_sample_products ==
    /\ pl_pc = "backfill"
    /\ \E count \in SampleCounts, base \in [1..MaxSampleCount -> DrawPool] :
          LET draws == [k \in 1..Max(0, count) |-> base[((k - 1) % MaxSampleCount) + 1]]
              got == add_sample_products(pl_category, count, draws)
          IN /\ pl_products' = pl_products \o got.appended
             /\ pl_log' = [pl_log EXCEPT !.requested = count, !.before = pl_products]
             /\ pl_pc' = IF got.raised THEN "raised" ELSE "save"
    /\ UNCHANGED <<pl_category, pl_file, df0, df, etl_pc>>

\* save_data (scraper_multi_source.py:222-252)
pipe_save_data ==
    /\ pl_pc = "save"
    /\ IF pl_products = <<>>
       THEN /\ pl_pc' = "nothing"
            /\ UNCHANGED pl_file
       ELSE /\ pl_file' = [k \in 1..Len(pl_products) |-> CsvLine(pl_products[k])]
            /\ pl_pc' = "load"
    /\ UNCHANGED <<pl_category, pl_products, pl_log, df0, df, etl_pc>>

\* DataProcessor(csv_file): load_data (data_processor.py:13-40)
pipe_load_data ==
    /\ pl_pc = "load"
    /\ df0' = read_csv(pl_file)
    /\ df' = read_csv(pl_file)
    /\ etl_pc' = "loaded"
    /\ pl_pc' = "loaded"
    /\ UNCHANGED <<pl_category, pl_products, pl_log, pl_file>>

\* processor.clean_data() on the loaded file (main.py:68)
pipe_clean_data == clean_data /\ UNCHANGED plVars

\* processor.add_derived_features() (main.py:69)
pipe_add_derived_features == add_derived_features /\ UNCHANGED plVars

NextPipe ==
    /\ UNCHANGED <<appVars, aggVars, priceVars, exVars, kwVars>>
    /\ \/ pipe_scrape_category
       \/ pipe_add_sample_products
       \/ pipe_save_data
       \/ pipe_load_data
       \/ pipe_clean_data
       \/ pipe_add_derived_features

SpecPipe == InitPipe /\ [][NextPipe]_vars

\* ======================================================================
\* Properties of the orchestration (checked under SpecApp)
\* ======================================================================

\* the thread of request r has been started and has not finished
InFlight(r) ==
    pc[r] \in {"L129", "L130", "L131", "L134", "L137", "L138", "L139", "L142",
               "L154", "L157", "L159", "L160", "L165", "L168"}

\* the thread of request r has executed the reset of app.py:130
PastReset(r) == InFlight(r) /\ pc[r] \notin {"L129", "L130"}

\* C1: at most one run_scraping thread is in flight at any time (a start
\* request arriving while an accepted invocation has not finished starts no
\* second thread).
C1_SingleInFlight == Cardinality({r \in Requests : InFlight(r)}) <= 1

\* C2: an invocation that met an unexpected error ends (leaves `finally`) with
\* the status message starting with 'Error:' and is_scraping False.
C2_FailureReflected ==
    [][\A r \in Requests :
          (pc[r] = "L168" /\ pc'[r] = "done" /\ failed[r])
              => (scraping_status'.message.prefix = "Error: "
                  /\ ~scraping_status'.is_scraping)]_vars

\* C3: while an invocation is past its initial reset, the progress in the
\* status record never decreases and stays in 0..100.
C3_ProgressMonotone ==
    [][\A r \in Requests :
          (PastReset(r) /\ PastReset(r)')
              => (scraping_status'.progress >= scraping_status.progress
                  /\ scraping_status'.progress \in 0..100)]_vars

\* C4: after a completed category pass of an invocation (until its next
\* pass appends) total_products equals the number of records the invocation
\* has accumulated; on success it equals the number handed to save_data.
C4_TotalIsAccumulated ==
    \A r \in Requests :
        /\ (pc[r] \in {"L157", "L159", "L160"} \/ (pc[r] = "L137" /\ loop_i[r] > 0))
               => scraping_status.total_products = Len(products[r])
        /\ (pc[r] = "done" /\ ~failed[r])
               => (Len(saved[r]) = Len(products[r])
                   /\ scraping_status.total_products = Len(saved[r]))

\* the position in a request's category list of the category a record
\* was produced for
PassOf(categories, rec) ==
    CHOOSE k \in 1..Len(categories) : category_name(categories[k]) = rec.category

\* C15: in the record list of an invocation every record of category i of
\* the caller's list stands before every record of category i + 1; the
\* list handed to save_data is the accumulated list, nothing removed or
\* moved.
C15_OrderPreserved ==
    \A r \in Requests :
        /\ \A i, j \in 1..Len(products[r]) :
              i < j => PassOf(args[r].categories, products[r][i])
                          <= PassOf(args[r].categories, products[r][j])
        /\ (pc[r] \in {"L159", "L160"}) => saved[r] = products[r]

\* an invocation over two categories has finished with records of both,
\* from a real source and from the backfill
C15_Witness ==
    \E r \in Requests :
        /\ pc[r] = "done"
        /\ ~failed[r]
        /\ Len(args[r].categories) = 2
        /\ \E i, j \in 1..Len(products[r]) :
              /\ products[r][i].category = "safety equipment"
              /\ products[r][i].source = "TradeIndia"
              /\ products[r][j].category = "plastic raw materials"
              /\ products[r][j].source = "Enhanced Sample Data"

\* C16: when an invocation has ended in failure, the records of the
\* categories whose pass it had completed have been handed to save_data as
\* they were accumulated.
C16_FailureKeepsRecords ==
    \A r \in Requests :
        (pc[r] = "done" /\ failed[r]) =>
            \A k \in 1..Len(products[r]) :
                PassOf(args[r].categories, products[r][k]) <= loop_i[r]
                    => (k <= Len(saved[r]) /\ saved[r][k] = products[r][k])

\* C26: each MultiSourceScraper, and with it its accumulated products list,
\* belongs to one run: no two threads ever hold the same scraper, the only
\* thread that has appended to a scraper's list is the one that holds it (a
\* status read appends to none), and so no list has two writers, however
\* the requests, status reads and runs interleave.
C26_ExclusiveOwnership ==
    /\ \A r1, r2 \in Requests :
          (r1 # r2 /\ scraper[r1] # 0) => scraper[r1] # scraper[r2]
    /\ \A o \in DOMAIN writers :
          /\ writers[o] \subseteq { r \in Requests : scraper[r] = o }
          /\ Cardinality(writers[o]) <= 1

\* two runs are executing at the same time (the guard of C1 let both in)
\* and each has appended records to its own scraper's list
C26_Witness ==
    \E r1, r2 \in Requests :
        /\ r1 # r2
        /\ pc[r1] = "L154" /\ pc[r2] = "L154"
        /\ scraper[r1] # scraper[r2]
        /\ writers[scraper[r1]] = {r1}
        /\ writers[scraper[r2]] = {r2}
        /\ products[r1] # <<>> /\ products[r2] # <<>>

\* the status record shows a finished invocation: completed, or an error
Outcome ==
    \/ scraping_status.progress = 100 /\ scraping_status.message.prefix = "Completed! "
    \/ scraping_status.message.prefix = "Error: "

\* C28: every invocation that was started comes to its end, with
\* is_scraping False and the status record showing either progress 100 and
\* 'Completed!' or a message starting with 'Error:'; and an invocation that
\* failed does not end with progress 100.
C28_InvocationEnds ==
    /\ \A r \in Requests :
          (pc[r] = "L129") ~> (pc[r] = "done" /\ ~scraping_status.is_scraping /\ Outcome)
    /\ [][\A r \in Requests :
            (pc[r] = "L168" /\ pc'[r] = "done")
                => /\ ~scraping_status'.is_scraping
                   /\ Outcome'
                   /\ failed[r] => scraping_status'.progress # 100]_vars

\* the records of products[r] of category i of the request from source src
CountOf(r, i, src) ==
    Cardinality({ k \in 1..Len(products[r]) :
                    products[r][k] = Product(category_name(args[r].categories[i]), src) })

\* the occurrences of key in the source list
Occurrences(srcs, key) == Cardinality({ k \in 1..Len(srcs) : srcs[k] = key })

\* the pass over category i of request r is complete
PassDone(r, i) ==
    \/ pc[r] \in {"L137", "L138", "L139", "L142"} /\ i <= loop_i[r]
    \/ pc[r] = "L154" /\ i <= loop_i[r] + 1
    \/ pc[r] \in {"L157", "L159", "L160"}
    \/ pc[r] \in {"L168", "done"} /\ ~failed[r]

SourceFailed(entry) ==
    \/ SourceName(entry.source) = NULL
    \/ entry.fetch.kind = "exception"
    \/ entry.fetch.status # 200
    \/ entry.fetch.doc = <<>>
    \/ entry.count = 0

RECURSIVE SumGrew(_)
SumGrew(log) == IF log = <<>> THEN 0 ELSE Head(log).grew + SumGrew(Tail(log))

\* C5: in scrape_category a failing or empty source contributes count 0 and
\* no records, no error leaves the call, and every source of the list is
\* processed, in list order; the accumulated records are exactly those of
\* the sources that succeeded.
C5_SourceIsolation ==
    /\ sc_pc # "raised"
    /\ \A k \in 1..Len(sc_log) :
          /\ sc_log[k].source = sc_call.sources[k]
          /\ ~sc_log[k].raised
          /\ SourceFailed(sc_log[k]) => (sc_log[k].count = 0 /\ sc_log[k].grew = 0)
    /\ Len(sc_products) = SumGrew(sc_log)
    /\ sc_pc = "returned" => Len(sc_log) = Len(sc_call.sources)

\* a call has returned in which a source whose fetch raised was followed by
\* a source that yielded records
C5_Witness ==
    /\ sc_pc = "returned"
    /\ \E k \in 1..(Len(sc_log) - 1) :
          /\ sc_log[k].fetch.kind = "exception"
          /\ SourceName(sc_log[k].source) # NULL
          /\ sc_log[k + 1].count > 0
    /\ Len(sc_products) > 0

RECURSIVE SumCount(_)
SumCount(log) == IF log = <<>> THEN 0 ELSE Head(log).count + SumCount(Tail(log))

\* the extractor ran for the source of a log entry: a known key whose fetch
\* answered 200
Extracted(entry) ==
    /\ SourceName(entry.source) # NULL
    /\ entry.fetch.kind = "response"
    /\ entry.fetch.status = 200

\* C27: scrape_category takes the sources once each in list order, so the
\* extractor runs at most once per list entry; the total is the sum of the
\* per-source counts and the number of records the products list grew by
\* since the call began; a source counts at most max_per_source, the total
\* at most the number of sources times max_per_source.
C27_Accounting ==
    /\ Len(sc_log) = sc_idx
    /\ sc_idx <= Len(sc_call.sources)
    /\ \A k \in 1..Len(sc_log) :
          /\ sc_log[k].source = sc_call.sources[k]
          /\ sc_log[k].count = sc_log[k].grew
          /\ sc_log[k].count <= sc_call.max_per_source
          /\ sc_log[k].count > 0 => Extracted(sc_log[k])
    /\ sc_total = SumCount(sc_log)
    /\ sc_total = Len(sc_products)
    /\ sc_total <= Len(sc_call.sources) * sc_call.max_per_source
    /\ sc_pc = "returned" => sc_idx = Len(sc_call.sources)

\* a call over two sources has returned: the first source counted two
\* records, reaching the cap, the second one record, and the total is three
C27_Witness ==
    /\ sc_pc = "returned"
    /\ Len(sc_call.sources) = 2
    /\ sc_call.max_per_source = 2
    /\ sc_log[1].count = 2
    /\ Len(sc_log[1].fetch.doc) = 3
    /\ sc_log[2].count = 1
    /\ sc_total = 3
    /\ Len(sc_products) = 3

\* ======================================================================
\* Properties of the price normalizer (checked under SpecPrice)
\* ======================================================================

\* C7: clean_price maps "Rs 2.50 Lakh" to 250000.0, "Rs 5,000" to 5000.0,
\* "Price not available" and null to null, and every comma-grouped text the
\* sample generator writes for a price in 1000..99999 to that price.
C7_PriceNormalized ==
    pr_pc \in {"cleaned", "categorized"} =>
        /\ price_text = Str_Rs2_50Lakh => price_cleaned = Float(250000)
        /\ price_text = Str_Rs5000 => price_cleaned = Float(5000)
        /\ price_text \in {Str_PriceNotAvailable, NoStr} => price_cleaned = NaN
        /\ (1000 <= gen_numeric /\ gen_numeric <= 99999) => price_cleaned = Float(gen_numeric)

\* a cleaned price in hundredths, for prices with at most two decimals
Paise(x) == IF x.e >= 0 THEN x.m * Pow10(x.e) * 100 ELSE x.m * Pow10(x.e + 2)

\* C8: categorize_price maps null to Unknown and every other price to the
\* one bin of Budget < 1000 <= Low < 10000 <= Medium < 50000 <= High <
\* 100000 <= Premium (a boundary value falls into the higher bin).
C8_PriceBins ==
    pr_pc = "categorized" =>
        IF price_cleaned = NaN THEN price_category = Cat_Unknown
        ELSE LET v == Paise(price_cleaned) IN
             /\ price_cleaned.e >= -2
             /\ v < 100000 => price_category = Cat_Budget
             /\ (100000 <= v /\ v < 1000000) => price_category = Cat_Low
             /\ (1000000 <= v /\ v < 5000000) => price_category = Cat_Medium
             /\ (5000000 <= v /\ v < 10000000) => price_category = Cat_High
             /\ 10000000 <= v => price_category = Cat_Premium

\* the boundary value 10000 has been categorized, as Medium
C8_Witness ==
    /\ pr_pc = "categorized"
    /\ price_cleaned = Float(10000)
    /\ price_category = Cat_Medium

\* ======================================================================
\* Properties of the ETL stage (checked under SpecEtl)
\* ======================================================================

SamePair(r, q) == r.name = q.name /\ r.company = q.company

\* C6: after clean_data at most one row survives per (name, raw company)
\* pair, the survivor is the first row of the loaded table with that pair
\* (so of rows differing only in source the first one stays, and exactly
\* one), and the survivors keep their relative order.
C6_Dedup ==
    etl_pc \in {"cleaned", "featured"} =>
        /\ \A i, j \in 1..Len(df) : i < j => (~SamePair(df[i], df[j]) /\ df[i].idx < df[j].idx)
        /\ \A k \in 1..Len(df) :
              LET o == df0[df[k].idx + 1] IN
                 /\ SamePair(o, df[k])
                 /\ o.source = df[k].source
                 /\ \A j \in 1..df[k].idx : ~SamePair(df0[j], o)
        /\ \A j \in 1..Len(df0) :
              df0[j].name # NoStr => \E k \in 1..Len(df) : SamePair(df[k], df0[j])

\* a table whose first and third rows share name and company under
\* different sources, around a row of another pair, has been cleaned
C6_Witness ==
    /\ etl_pc = "cleaned"
    /\ Len(df0) = 3
    /\ SamePair(df0[1], df0[3])
    /\ df0[1].source # df0[3].source
    /\ ~SamePair(df0[1], df0[2])
    /\ df0[2].name # NoStr
    /\ Len(df) = 2
    /\ df[1].source = df0[1].source

\* C9: every row's quality_score is 30 for a name, 25 for a non-null
\* price_cleaned, 20 for a raw company other than 'Unknown', 15 for a
\* location_cleaned other than 'Unknown' and 10 for a url, summed; it lies
\* in 0..100.
C9_QualityScore ==
    etl_pc = "featured" =>
        \A k \in 1..Len(df) :
            /\ df[k].quality_score =
                   (IF df[k].name # NoStr THEN 30 ELSE 0)
                 + (IF df[k].price_cleaned # NaN THEN 25 ELSE 0)
                 + (IF df[k].company # Str_Unknown THEN 20 ELSE 0)
                 + (IF df[k].location_cleaned # Str_Unknown THEN 15 ELSE 0)
                 + (IF df[k].url # NULL THEN 10 ELSE 0)
            /\ df[k].quality_score \in 0..100

\* a row with no price, a missing company, an unknown location and a url
\* has been scored (30 + 20 + 10)
C9_Witness ==
    /\ etl_pc = "featured"
    /\ \E k \in 1..Len(df) :
          /\ df[k].price_cleaned = NaN
          /\ df[k].company = NoStr
          /\ df[k].location = Str_unknown_padded
          /\ df[k].url # NULL
          /\ df[k].quality_score = 60

\* C10: a row with a name, a parseable price, a url, a default company
\* ('To be updated' or 'Unknown') and a default location ('India' or
\* 'Location not available') scores 30 + 25 + 0 + 0 + 10 = 65.
C10_DefaultsScore65 ==
    etl_pc = "featured" =>
        \A k \in 1..Len(df) :
            ( /\ df[k].name # NoStr
              /\ df[k].price_cleaned # NaN
              /\ df[k].url # NULL
              /\ df[k].company \in {Str_ToBeUpdated, Str_Unknown}
              /\ df[k].location \in {Str_India, Str_LocationNotAvailable} )
            => df[k].quality_score = 65

\* ======================================================================
\* Properties of the normalizers (checked under SpecEtl)
\* ======================================================================

\* the segments of s between its commas, in order: what s.split(',') yields
RECURSIVE CommaSegments(_)
CommaSegments(s) ==
    IF \A i \in 1..Len(s) : s[i] # "," THEN <<s>>
    ELSE LET c == CHOOSE i \in 1..Len(s) :
                      s[i] = "," /\ \A j \in 1..(i - 1) : s[j] # ","
         IN <<SubSeq(s, 1, c - 1)>> \o CommaSegments(SubSeq(s, c + 1, Len(s)))

\* the positions in the region list of the regions that occur in loc
MatchingRegions(loc) ==
    { k \in 1..Len(States) : Contains(lower(loc), lower(States[k])) }

StateExpected(loc) ==
    IF loc = Str_Unknown THEN Str_Unknown
    ELSE IF MatchingRegions(loc) # {}
    THEN States[CHOOSE k \in MatchingRegions(loc) : \A j \in MatchingRegions(loc) : k <= j]
    ELSE IF CommaSegments(loc) = <<>> THEN Str_Unknown
    ELSE strip(CommaSegments(loc)[Len(CommaSegments(loc))])

\* C21: the state of every cleaned row is 'Unknown' for the location_cleaned
\* 'Unknown'; otherwise the region earliest in the fixed list among those
\* that occur in location_cleaned as a case-insensitive substring; with no
\* such region the trimmed last of its comma-separated segments, 'Unknown'
\* were there no segment.
C21_StateExtraction ==
    etl_pc \in {"cleaned", "featured"} =>
        \A k \in 1..Len(df) : df[k].state = StateExpected(df[k].location_cleaned)

\* a row whose location names Gujarat before Maharashtra has been cleaned
\* and its state is Maharashtra, the earlier of the two in the list
C21_Witness ==
    /\ etl_pc = "cleaned"
    /\ \E k \in 1..Len(df) :
          /\ df[k].location_cleaned = Str_GujaratMaharashtra
          /\ df[k].state = States[1]

\* s occurs in r as whole words, in any case: no word character stands
\* directly before or after the occurrence
HasWholeWord(r, s) ==
    \E i \in 1..(Len(r) - Len(s) + 1) :
        /\ lower(SubSeq(r, i, i + Len(s) - 1)) = lower(s)
        /\ (i = 1 \/ ~IsWordChar(r[i - 1]))
        /\ (i + Len(s) > Len(r) \/ ~IsWordChar(r[i + Len(s)]))

\* the maximal runs of word characters of s, in order
RECURSIVE WordsOf(_)
WordsOf(s) ==
    IF s = <<>> THEN <<>>
    ELSE IF ~IsWordChar(Head(s)) THEN WordsOf(Tail(s))
    ELSE LET n == CHOOSE m \in 1..Len(s) :
                      /\ \A j \in 1..m : IsWordChar(s[j])
                      /\ (m = Len(s) \/ ~IsWordChar(s[m + 1]))
         IN <<SubSeq(s, 1, n)>> \o WordsOf(SubSeq(s, n + 1, Len(s)))

\* the words the legal suffixes are made of
SuffixWords == UNION { { WordsOf(lower(Suffixes[k]))[j] :
                           j \in 1..Len(WordsOf(lower(Suffixes[k]))) } :
                       k \in 1..Len(Suffixes) }

\* the words of s that are no word of a legal suffix, lower-cased, in order
OtherWords(s) == SelectSeq(WordsOf(lower(s)), LAMBDA w : w \notin SuffixWords)

\* C22: the cleaned company of a null or 'Unknown' company is 'Unknown';
\* of any other company it is trimmed, title-cased, holds no whole-word
\* occurrence (in any case) of a legal suffix, and holds the other words of
\* the company in their order.
C22_CompanyNormalized ==
    etl_pc \in {"cleaned", "featured"} =>
        \A k \in 1..Len(df) :
            LET c == df[k].company
                r == df[k].company_cleaned
            IN IF c = NoStr \/ c = Str_Unknown THEN r = Str_Unknown
               ELSE /\ r = strip(r)
                    /\ r = title(r)
                    /\ \A j \in 1..Len(Suffixes) : ~HasWholeWord(r, Suffixes[j])
                    /\ OtherWords(r) = OtherWords(c)

\* ======================================================================
\* Properties of extract_keywords (checked under SpecKeywords)
\* ======================================================================

\* the positions of s where a whitespace-separated token begins
TokenStarts(s) ==
    { i \in 1..Len(s) : ~IsSpace(s[i]) /\ (i = 1 \/ IsSpace(s[i - 1])) }

\* the token of s that begins at position i
TokenAt(s, i) ==
    LET last == CHOOSE j \in i..Len(s) :
                    /\ \A m \in i..j : ~IsSpace(s[m])
                    /\ (j = Len(s) \/ IsSpace(s[j + 1]))
    IN SubSeq(s, i, last)

\* the starts of the lower-cased tokens of name that are no stop word and
\* have at least 3 characters
KeywordStarts(name) ==
    { i \in TokenStarts(name) :
        /\ TokenAt(lower(name), i) \notin StopWords
        /\ Len(TokenAt(name, i)) >= 3 }

\* the k-th smallest member of a set of numbers
Nth(S, k) == CHOOSE i \in S : Cardinality({ j \in S : j < i }) = k - 1

\* C23: the keywords of a null name are the empty sequence; of any other
\* name they are the first 5, or all if fewer, of its whitespace-separated
\* lower-cased tokens that are no stop word and have at least 3 characters,
\* in the order of the name; never more than 5, never a stop word, never a
\* token of fewer than 3 characters.
C23_Keywords ==
    kw_pc = "returned" =>
        /\ Len(kw_keywords) <= 5
        /\ \A k \in 1..Len(kw_keywords) :
              kw_keywords[k] \notin StopWords /\ Len(kw_keywords[k]) >= 3
        /\ IF kw_name = NoStr THEN kw_keywords = <<>>
           ELSE /\ Len(kw_keywords) = Min(5, Cardinality(KeywordStarts(kw_name)))
                /\ \A k \in 1..Len(kw_keywords) :
                      kw_keywords[k] = TokenAt(lower(kw_name), Nth(KeywordStarts(kw_name), k))

\* a name of six keywords, a stop word and a two-letter word has been
\* answered with its first five keywords
C23_Witness ==
    /\ kw_pc = "returned"
    /\ kw_name # NoStr
    /\ Cardinality(KeywordStarts(kw_name)) = 6
    /\ Cardinality(TokenStarts(kw_name)) = 8
    /\ Len(kw_keywords) = 5
    /\ kw_keywords[5] = <<"s","a","f","e","t","y">>

\* ======================================================================
\* Properties of extract_products (checked under SpecExtract)
\* ======================================================================

\* the name of the k-th link of the document of the call
NameAt(k) == LinkName(ex_call.doc[k])

\* a name passes the filter on its own: non-empty, 11 to 199 characters, no
\* noise word in it whatever the case
NameOk(name) ==
    /\ name # <<>>
    /\ 11 <= Len(name) /\ Len(name) <= 199
    /\ LET low == lower(name)
       IN \A w \in NoiseWords :
             \A i \in 1..(Len(name) - Len(w) + 1) : SubSeq(low, i, i + Len(w) - 1) # w

\* the names of the links k.. that pass the filter and are not in seen, each
\* once, in document order
RECURSIVE SurvivorNames(_, _, _)
SurvivorNames(doc, k, seen) ==
    IF k > Len(doc) THEN <<>>
    ELSE IF NameOk(LinkName(doc[k])) /\ LinkName(doc[k]) \notin seen
         THEN <<LinkName(doc[k])>>
              \o SurvivorNames(doc, k + 1, seen \cup {LinkName(doc[k])})
         ELSE SurvivorNames(doc, k + 1, seen)

\* the records the call has appended so far
ExAppended == SubSeq(ex_products, Len(ex_prior) + 1, Len(ex_products))

\* C11: one call of extract_products appends at most max_results records
\* (after the records that were there), returns the number it appended, and
\* consumes no link after the one that made the max_results-th survivor;
\* the records it leaves are the first max_results survivors of the
\* document, in document order.
C11_CapAndCount ==
    /\ ex_count <= ex_call.max_results
    /\ Len(ex_products) = Len(ex_prior) + ex_count
    /\ SubSeq(ex_products, 1, Len(ex_prior)) = ex_prior
    /\ (ex_count = ex_call.max_results) => (ex_k = 0 \/ ex_emitted[ex_k])
    /\ ex_pc = "returned" =>
          LET all == SurvivorNames(ex_call.doc, 1, {})
              n == Min(ex_call.max_results, Len(all))
          IN /\ ex_count = n
             /\ [k \in 1..Len(ExAppended) |-> ExAppended[k].name] = SubSeq(all, 1, n)
             /\ (ex_k < Len(ex_call.doc)) => ex_count = ex_call.max_results

\* a call has returned at its cap with a link left that would have survived
C11_Witness ==
    /\ ex_pc = "returned"
    /\ ex_call.max_results = 2
    /\ ex_count = 2
    /\ ex_k < Len(ex_call.doc)
    /\ Len(SurvivorNames(ex_call.doc, 1, {})) > 2
    /\ ex_prior # <<>>

\* C12: a link the loop consumed is emitted exactly when its name (title,
\* else stripped text) is non-empty, 11 to 199 characters long, holds no
\* noise word in any case, and is not the name of a link emitted before it
\* in the call; so no two records of the call share a name, 'Home' and
\* 'Contact Us Page Link' are never emitted, and the 50-character name is.
C12_NoiseFilter ==
    /\ \A k \in 1..ex_k :
          ex_emitted[k] <=>
              /\ NameOk(NameAt(k))
              /\ \A j \in 1..(k - 1) : ex_emitted[j] => NameAt(j) # NameAt(k)
    /\ \A i, j \in 1..Len(ExAppended) : i # j => ExAppended[i].name # ExAppended[j].name
    /\ \A k \in 1..ex_k :
          /\ ex_call.doc[k] \in {Link_Home, Link_Contact} => ~ex_emitted[k]
          /\ (ex_call.doc[k] = Link_Fifty /\ \A j \in 1..(k - 1) : ex_call.doc[j] # Link_Fifty)
                => ex_emitted[k]

\* a call has consumed 'Contact Us Page Link' and, twice, the 50-character
\* name, and emitted only the first of the two
C12_Witness ==
    /\ ex_pc = "returned"
    /\ ex_k = 3
    /\ ex_call.doc = <<Link_Contact, Link_Fifty, Link_Fifty>>
    /\ Len(Str_Fifty) = 50
    /\ ex_emitted = <<FALSE, TRUE, FALSE>>

\* the first maximal run of digits and commas of s (<<>>: there is none)
FirstRunOf(s) ==
    IF \A i \in 1..Len(s) : ~IsDigitOrComma(s[i]) THEN <<>>
    ELSE LET a == CHOOSE i \in 1..Len(s) :
                      IsDigitOrComma(s[i]) /\ \A j \in 1..(i - 1) : ~IsDigitOrComma(s[j])
             b == CHOOSE j \in a..Len(s) :
                      /\ \A m \in a..j : IsDigitOrComma(s[m])
                      /\ (j = Len(s) \/ ~IsDigitOrComma(s[j + 1]))
         IN SubSeq(s, a, b)

\* the record the call appended for the link k it emitted
RecordOf(k) ==
    ex_products[Len(ex_prior) + Cardinality({ j \in 1..k : ex_emitted[j] })]

\* C25: the record of an emitted link with no price text in its parent has
\* the price 'Price on Request' and no price_numeric; with a price text it
\* has that text, trimmed, as price, and as price_numeric the number read
\* from the digits of the text's first run of digits and commas, or none
\* when the text has no such run or the run has no digit; and the link is
\* emitted whatever its price text.
C25_PriceAssociation ==
    \A k \in 1..ex_k :
        LET link == ex_call.doc[k] IN
        /\ ex_emitted[k] <=>
              /\ NameOk(NameAt(k))
              /\ \A j \in 1..(k - 1) : NameAt(j) = NameAt(k) => ~ex_emitted[j]
        /\ ex_emitted[k] =>
              IF link.price_elem = NoStr
              THEN /\ RecordOf(k).price = Str_PriceOnRequest
                   /\ RecordOf(k).price_numeric = NaN
              ELSE LET text == strip(link.price_elem)
                       digits == SelectSeq(FirstRunOf(text), IsDigit)
                   IN /\ RecordOf(k).price = text
                      /\ RecordOf(k).price_numeric =
                            IF digits = <<>> THEN NaN ELSE Float(DigitsValue(digits))

\* a call has emitted a link whose price text begins its first run with a
\* lone comma: the record keeps the text and has no price_numeric
C25_Witness ==
    /\ ex_pc = "returned"
    /\ \E k \in 1..ex_k :
          /\ ex_call.doc[k] = Link_CommaFirst
          /\ ex_emitted[k]
          /\ RecordOf(k).price = Str_PriceCommaRs500
          /\ RecordOf(k).price_numeric = NaN

\* C24: a call of extract_products leaves the state shared with other calls
\* and components as it found it: self.products, which the calls for the
\* other sources, add_sample_products and save_data work on, is during and
\* after the call what it was when the call began.
C24_NoSharedMutation ==
    ex_pc \in {"loop", "returned"} => ex_products = ex_prior

\* ======================================================================
\* Properties of the backfill and of the whole pipeline (checked under
\* SpecPipe)
\* ======================================================================

\* add_sample_products has been called and has ended
Backfilled == pl_pc \in {"save", "nothing", "load", "loaded", "raised"}

\* the records add_sample_products appended
PlAdded == SubSeq(pl_products, Len(pl_log.before) + 1, Len(pl_products))

\* C14: add_sample_products(category, count) raises for no category (one
\* without templates included) and no count; it appends min(count, 4 * the
\* number of templates of the category) records, none when that is not
\* positive, so never more than count; each has source 'Enhanced Sample
\* Data' and the category of the call; the records that were there stay as
\* they were, in place.
C14_Backfill ==
    /\ pl_pc # "raised"
    /\ Backfilled =>
          LET n == Min(pl_log.requested, 4 * TemplateCount(pl_category))
          IN /\ Len(PlAdded) = (IF n > 0 THEN n ELSE 0)
             /\ (pl_log.requested >= 0 => Len(PlAdded) <= pl_log.requested)
             /\ \A k \in 1..Len(PlAdded) :
                   /\ PlAdded[k].source = "Enhanced Sample Data"
                   /\ PlAdded[k].category = pl_category
             /\ SubSeq(pl_products, 1, Len(pl_log.before)) = pl_log.before

\* a backfill of 35 was asked for a category without templates, after a
\* scrape that had left three records, and has ended
C14_Witness ==
    /\ Backfilled
    /\ pl_category = "office supplies"
    /\ pl_log.requested = SAMPLE_COUNT
    /\ PlAdded = <<>>
    /\ Len(pl_log.before) = 3
    /\ pl_products = pl_log.before

\* no two records of the scraper share name and company
PairsDistinct ==
    \A i, j \in 1..Len(pl_products) :
        i # j => ~(/\ pl_products[i].name = pl_products[j].name
                   /\ pl_products[i].company = pl_products[j].company)

\* the case of C13: three records scraped for 'safety equipment', two
\* backfilled, no repeated pair, and the file processed
ThreePlusTwo ==
    /\ etl_pc = "featured"
    /\ pl_category = "safety equipment"
    /\ pl_log.scraped = 3
    /\ pl_log.requested = 2
    /\ PairsDistinct

\* C13: three scraped records of 'safety equipment' and a backfill of two,
\* with no repeated (name, company) pair, give a processed table of exactly
\* five rows, each of category 'safety equipment', each with the weighted
\* sum 30/25/20/15/10 as its quality_score.
C13_EndToEnd ==
    ThreePlusTwo =>
        /\ Len(df) = 5
        /\ \A k \in 1..Len(df) :
              /\ df[k].category = "safety equipment"
              /\ df[k].quality_score =
                     30 * B(df[k].name # NoStr) + 25 * B(df[k].price_cleaned # NaN)
                   + 20 * B(df[k].company # Str_Unknown)
                   + 15 * B(df[k].location_cleaned # Str_Unknown)
                   + 10 * B(df[k].url # NULL)

\* the case has happened, with a backfilled record that has the name of a
\* scraped one under another company
C13_Witness ==
    /\ ThreePlusTwo
    /\ Len(df) = 5
    /\ df[1].name = df[4].name
    /\ df[1].source = "TradeIndia"
    /\ df[4].source = "Enhanced Sample Data"
    /\ df[1].quality_score = 100

\* the row of the loaded table with index idx is in the table
Survives(idx) == \E k \in 1..Len(df) : df[k].idx = idx

\* C17: after clean_data every row has a name; every loaded row without a
\* name is gone; a loaded row with a name is gone only if an earlier loaded
\* row has its name and company.
C17_NamesNotNull ==
    etl_pc \in {"cleaned", "featured"} =>
        /\ \A k \in 1..Len(df) : df[k].name # NoStr
        /\ \A j \in 1..Len(df0) :
              /\ df0[j].name = NoStr => ~Survives(j - 1)
              /\ (df0[j].name # NoStr /\ ~Survives(j - 1))
                    => \E i \in 1..(j - 1) : SamePair(df0[i], df0[j])

\* a table with a nameless row between two named rows of different pairs
\* has been cleaned to the two named rows
C17_Witness ==
    /\ etl_pc = "cleaned"
    /\ Len(df0) = 3
    /\ df0[2].name = NoStr
    /\ df0[1].name # NoStr /\ df0[3].name # NoStr
    /\ ~SamePair(df0[1], df0[3])
    /\ Len(df) = 2
    /\ df[2].idx = 2

\* the scores a named row can get: 30 for the name plus 25, 20, 15 and 10
\* for any of price, company, location and url
NamedScores ==
    { 30 + 25 * p + 20 * c + 15 * l + 10 * u :
        p \in {0, 1}, c \in {0, 1}, l \in {0, 1}, u \in {0, 1} }

\* C30: after clean_data followed by add_derived_features every row has a
\* name and a quality_score of at least 30 that is 30 plus a subset sum of
\* {25, 20, 15, 10}; no row of the table scores 0.
C30_ScoreAtLeastThirty ==
    etl_pc = "featured" =>
        \A k \in 1..Len(df) :
            /\ df[k].name # NoStr
            /\ df[k].quality_score >= 30
            /\ df[k].quality_score \in NamedScores
            /\ df[k].quality_score # 0

\* a nameless row that scored nothing but its other fields has gone from
\* the table, and the row left has only its name and scores 30
C30_Witness ==
    /\ etl_pc = "featured"
    /\ Len(df0) = 2
    /\ df0[1].name = NoStr
    /\ Len(df) = 1
    /\ df[1].idx = 1
    /\ df[1].price_cleaned = NaN
    /\ df[1].company = Str_Unknown
    /\ df[1].location_cleaned = Str_Unknown
    /\ df[1].url = NULL
    /\ df[1].quality_score = 30

\* C18: clean_data and add_derived_features run a second time on the
\* processed table complete and leave every row and every column as the
\* first run left them.
C18_Idempotent ==
    [][/\ etl_pc = "featured" => (etl_pc' = "recleaned" /\ df' = df)
       /\ etl_pc = "recleaned" => (etl_pc' = "refeatured" /\ df' = df)]_vars

\* every record normalized and scored on its own, in loaded order
NormalizedEach(rows) ==
    [k \in 1..Len(rows) |->
        [row |-> CleanedRow(rows[k]), score |-> quality_score_of(CleanedRow(rows[k]))]]

\* of the normalized records those with a name whose (name, raw company)
\* no earlier record has, in order
FirstOfEachPair(recs) ==
    SelectRows(recs, [k \in 1..Len(recs) |->
                        /\ recs[k].row.name # NoStr
                        /\ ~\E j \in 1..(k - 1) : SamePair(recs[j].row, recs[k].row)], 1)

\* C19: the table the code produces (deduplicate, drop nameless rows,
\* normalize, score) is the table got by normalizing and scoring every
\* loaded record first and deduplicating on (name, raw company) afterwards:
\* the same rows in the same order with the same raw and derived fields.
C19_OrderOfStages ==
    etl_pc = "featured" =>
        LET alt == FirstOfEachPair(NormalizedEach(df0)) IN
           /\ Len(df) = Len(alt)
           /\ \A k \in 1..Len(df) :
                 /\ CleanedRow(df0[df[k].idx + 1]) = alt[k].row
                 /\ df[k].idx = alt[k].row.idx
                 /\ df[k].name = alt[k].row.name
                 /\ df[k].price = alt[k].row.price
                 /\ df[k].company = alt[k].row.company
                 /\ df[k].location = alt[k].row.location
                 /\ df[k].category = alt[k].row.category
                 /\ df[k].url = alt[k].row.url
                 /\ df[k].source = alt[k].row.source
                 /\ df[k].price_cleaned = alt[k].row.price_cleaned
                 /\ df[k].location_cleaned = alt[k].row.location_cleaned
                 /\ df[k].state = alt[k].row.state
                 /\ df[k].company_cleaned = alt[k].row.company_cleaned
                 /\ df[k].price_category = alt[k].row.price_category
                 /\ df[k].product_keywords = alt[k].row.product_keywords
                 /\ df[k].quality_score = alt[k].score

\* a table has been processed in which two rows share the name and the
\* cleaned company but not the raw company, and both are kept
C19_Witness ==
    /\ etl_pc = "featured"
    /\ Len(df) >= 2
    /\ \E i, j \in 1..Len(df) :
          /\ i < j
          /\ df[i].name = df[j].name
          /\ df[i].company # df[j].company
          /\ df[i].company_cleaned = df[j].company_cleaned
    /\ Len(df) < Len(df0)

\* ======================================================================
\* Properties of the magnitude words (checked under SpecPrice)
\* ======================================================================

\* the power of ten of the one multiplier a text gets: lakh before crore
\* before the character k, in any case, anywhere in the text
MagnitudeOf(text) ==
    LET low == lower(text)
        has(w) == \E i \in 1..(Len(low) - Len(w) + 1) : SubSeq(low, i, i + Len(w) - 1) = w
    IN IF has(<<"l","a","k","h">>) THEN 5
       ELSE IF has(<<"c","r","o","r","e">>) THEN 7
       ELSE IF has(<<"k">>) THEN 3
       ELSE 0

\* C20: clean_price multiplies the first number of the text by exactly one
\* of 100,000 (lakh), 10,000,000 (crore), 1,000 (k), taken in that priority
\* and matched in any case; a text with none of them gives the bare number,
\* a text without a digit gives null. '5 Crore / 50 Lakh' gives 500,000,
\* '1k Crore' 10,000,000, '2 LAKH' 200,000, 'Pack of 10' 10,000.
C20_MagnitudePriority ==
    (pr_pc \in {"cleaned", "categorized"} /\ price_text # NoStr) =>
        /\ (\A i \in 1..Len(price_text) : ~IsDigit(price_text[i])) => price_cleaned = NaN
        /\ (\E i \in 1..Len(price_text) : IsDigit(price_text[i])) =>
              price_cleaned = Scale10(first_number(price_text), MagnitudeOf(price_text))
        /\ price_text = Str_5CroreOr50Lakh => price_cleaned = Float(500000)
        /\ price_text = Str_1kCrore => price_cleaned = Float(10000000)
        /\ price_text = Str_2LAKH => price_cleaned = Float(200000)
        /\ price_text = Str_PackOf10 => price_cleaned = Float(10000)
        /\ price_text = <<RUPEE, " ", "9", "9", "9">> => price_cleaned = Float(999)
        /\ price_text = Str_BulkPack => price_cleaned = NaN

\* the text with both crore and lakh has been cleaned, with the lakh factor
C20_Witness ==
    /\ pr_pc = "cleaned"
    /\ price_text = Str_5CroreOr50Lakh
    /\ price_cleaned = Float(500000)

====
